---- MODULE Spec2Model ----
(***************************************************************************)
(* Authentication and session lifecycle of the qiangzhi-jwgl tools:        *)
(*   LoginManager       (src/src/login_manager.py)                         *)
(*   SessionManager     (src/src/session_manager.py)                       *)
(*   AdminLoginManager  (src/src/admin_login_manager.py)                   *)
(*   CaptchaSolver      (src/src/captcha_solver.py)                        *)
(* The portal, the OCR engine and the file system are the environment:     *)
(* every response they give is an input chosen with \E.  One caller drives *)
(* one manager object; a call runs from "idle" to "done" and Return hands  *)
(* the result back.  Times are integers >= 1; 0 stands for Python's None   *)
(* in _last_activity (both are falsy in the code's test).                  *)
(* SpecTwoCallers adds a second thread calling ensure_logged_in on the     *)
(* same SessionManager; SpecLoadCookies applies the cookie loop of         *)
(* _load_session to stored records of every shape; SpecEncode applies      *)
(* _encode_credentials, SpecCaptcha solve_captcha, to arguments of every   *)
(* shape; SpecAdminLogin applies AdminLoginManager.login to every answer   *)
(* to its session-code request.                                            *)
(***************************************************************************)
EXTENDS Integers, Sequences, FiniteSets, TLC

\* ---------------------------------------------------------------- bounds
MaxTime == 3          \* the clock runs over 1..MaxTime
MaxRetriesArg == 3    \* max_retries arguments tried: 0..MaxRetriesArg
MaxOcrLen == 4        \* lengths of cleaned OCR text tried: 0..MaxOcrLen
MaxCookies == 2       \* entries of the 'cookies' object of a stored record: 0..MaxCookies
MaxName == 1          \* characters of a username or a password given to _encode_credentials
MaxScode == 2         \* characters of scode
MaxSxh == 4           \* characters of sxh
MaxLongSxh == 7       \* digits of sxh for the account whose password holds the separator
MaxRaw == 5           \* characters of the text the OCR engine returns
MaxText == 4          \* characters of the body of a session-code response

\* ------------------------------------------------------ program constants
session_timeout == 1      \* constructor argument of SessionManager (seconds, scaled)
AUTO_LOGIN_RETRIES == 3   \* max_retries passed by SessionManager._auto_login
CAPTCHA_LEN == 4          \* CaptchaSolver keeps 4 characters

Managers == {"LoginManager", "SessionManager", "AdminLoginManager"}
Credentials == {"u1"}
AdminCredentials == {"u1", "u2"}
NoCred == "none"

\* ----------------------------------------------------------- HTTP replies
\* A reply of the portal to a GET of a page: raised = the transport raised
\* (timeout, connection error); url_login = the final URL holds one of the
\* login indicators; text_login = the body holds a login word.
PageOk == [raised |-> FALSE, status |-> 200, url_login |-> FALSE, text_login |-> FALSE]
PageLoginRedirect == [raised |-> FALSE, status |-> 200, url_login |-> TRUE, text_login |-> TRUE]
PageLoginText == [raised |-> FALSE, status |-> 200, url_login |-> FALSE, text_login |-> TRUE]
PageError == [raised |-> FALSE, status |-> 500, url_login |-> FALSE, text_login |-> FALSE]
PageRaised == [raised |-> TRUE, status |-> 0, url_login |-> FALSE, text_login |-> FALSE]
NoPage == [raised |-> FALSE, status |-> 0, url_login |-> FALSE, text_login |-> FALSE]
PageReplies == {PageOk, PageLoginRedirect, PageLoginText, PageError, PageRaised}

\* Replies to GET /jsxsd/ (the session-establishing request of login).
MainReplies == {"ok", "non200", "raised"}
\* Outcomes of _get_captcha_image (it catches its own exceptions).
FetchReplies == {"image", "failed"}
\* Replies to POST /jsxsd/xk/LoginToXk: landing = the final URL is xsMain.jsp;
\* error = the first <font color> text of the body ("" when there is none).
ERR_CAPTCHA == "portal: captcha mismatch"
ERR_CREDENTIAL == "portal: credential mismatch"
PostLanding == [raised |-> FALSE, landing |-> TRUE, error |-> ""]
PostCaptchaErr == [raised |-> FALSE, landing |-> FALSE, error |-> ERR_CAPTCHA]
PostCredErr == [raised |-> FALSE, landing |-> FALSE, error |-> ERR_CREDENTIAL]
PostNoMessage == [raised |-> FALSE, landing |-> FALSE, error |-> ""]
PostRaised == [raised |-> TRUE, landing |-> FALSE, error |-> ""]
PostReplies == {PostLanding, PostCaptchaErr, PostCredErr, PostNoMessage, PostRaised}

\* Messages of the result dictionaries.
MSG_OK == "login ok"
MSG_MAIN_FAILED == "main page failed"
MSG_OCR_FAILED == "captcha recognition failed"
MSG_FETCH_FAILED == "captcha fetch failed"
MSG_NEED_CAPTCHA == "captcha required"
MSG_UNKNOWN == "login failed, reason unknown"
MSG_TRANSPORT == "transport error"
MSG_EXHAUSTED == "login failed after retries"
NoResult == [success |-> FALSE, message |-> "no result"]

\* Messages of the exceptions SessionManager.request raises.
EXC_NO_SESSION == "no valid login session"
EXC_RELOGIN_FAILED == "session expired and relogin failed"
NoRet == [kind |-> "none", ok |-> FALSE, reason |-> "", page |-> NoPage]

\* ---------------------------------------------------------------- cookies
\* A cookie of the jar (self.session.cookies); the jar keeps one cookie for
\* each (domain, path, name).
PORTAL_DOMAIN == "58.20.60.39"
OTHER_DOMAIN == "other.portal"
SessionCookie == [name |-> "JSESSIONID", value |-> "s1", domain |-> PORTAL_DOMAIN, path |-> "/"]
NoCookies == {}

\* RequestsCookieJar.set(name, value, domain, path)
SetCookie(jar, c) ==
    {d \in jar : ~(d.name = c.name /\ d.domain = c.domain /\ d.path = c.path)} \cup {c}

\* An entry of the 'cookies' object of a stored record: form = "structured"
\* for name -> {value, domain, path}, "flat" for name -> bare string (then
\* domain and path are not part of the entry).
StructuredEntry(c) ==
    [name |-> c.name, form |-> "structured", value |-> c.value, domain |-> c.domain, path |-> c.path]
FlatEntry(n, v) == [name |-> n, form |-> "flat", value |-> v, domain |-> "", path |-> ""]
\* A structured entry that lacks the 'value' key: cookie_info['value'] raises
\* KeyError for it.
NoValueEntry(n) == [name |-> n, form |-> "novalue", value |-> "", domain |-> "", path |-> ""]

\* The cookie one entry is restored as: a structured entry with its value,
\* domain and path, a flat one with the defaults of the jar ("" and "/").
CookieOf(e) ==
    IF e.form = "structured"
    THEN [name |-> e.name, value |-> e.value, domain |-> e.domain, path |-> e.path]
    ELSE [name |-> e.name, value |-> e.value, domain |-> "", path |-> "/"]

\* One turn of `for name, cookie_info in cookies.items()` of _load_session.
RestoreCookie_DictOnly(jar, e) ==
    IF e.form = "structured" THEN SetCookie(jar, CookieOf(e)) ELSE jar

RestoreCookie(jar, e) == SetCookie(jar, CookieOf(e))

RECURSIVE RestoreCookies(_, _)
RestoreCookies(jar, entries) ==
    IF entries = <<>> THEN jar
    ELSE RestoreCookies(RestoreCookie(jar, Head(entries)), Tail(entries))

\* The loop of _load_session over the stored entries, in the order of the
\* file: it stops at the first entry whose value cannot be read, with the
\* cookies before it already in the jar.
RECURSIVE RestoreUntilError(_, _)
RestoreUntilError(jar, entries) ==
    IF entries = <<>> THEN [raised |-> FALSE, jar |-> jar]
    ELSE IF Head(entries).form = "novalue" THEN [raised |-> TRUE, jar |-> jar]
    ELSE RestoreUntilError(RestoreCookie(jar, Head(entries)), Tail(entries))

\* cookies_dict of save_session: one structured entry for each cookie name
\* of the jar.
RECURSIVE SavedCookies(_)
SavedCookies(jar) ==
    IF jar = {} THEN <<>>
    ELSE LET c == CHOOSE x \in jar : TRUE
         IN <<StructuredEntry(c)>> \o SavedCookies({d \in jar : d.name # c.name})

\* ---------------------------------------------------------- session files
\* The session file of SessionManager: corrupt = its content does not parse;
\* base_match = the recorded base_url is the configured one.
NoFile == [exists |-> FALSE, corrupt |-> FALSE, base_match |-> TRUE, logged_in |-> FALSE,
           last_activity |-> 0, saved_time |-> 0, cookies |-> <<>>]
CorruptFile == [exists |-> TRUE, corrupt |-> TRUE, base_match |-> TRUE, logged_in |-> FALSE,
                last_activity |-> 0, saved_time |-> 0, cookies |-> <<>>]
\* A record another instance, configured for another portal, saved at time t.
ForeignFile(t) ==
    [exists |-> TRUE, corrupt |-> FALSE, base_match |-> FALSE, logged_in |-> TRUE,
     last_activity |-> t, saved_time |-> t,
     cookies |-> <<[name |-> "JSESSIONID", form |-> "structured", value |-> "s2",
                    domain |-> OTHER_DOMAIN, path |-> "/"]>>]
AdmNoFile == [exists |-> FALSE, corrupt |-> FALSE, base_match |-> TRUE, cookie |-> FALSE,
              creds |-> NoCred]
AdmCorruptFile == [exists |-> TRUE, corrupt |-> TRUE, base_match |-> TRUE, cookie |-> FALSE,
                   creds |-> NoCred]
AdmForeignFile == [exists |-> TRUE, corrupt |-> FALSE, base_match |-> FALSE, cookie |-> TRUE,
                   creds |-> "u2"]
NoEntry == [logged_in |-> FALSE, last_activity |-> 0]
\* What is recorded of the call's load of the stored session: the kind of
\* file it met, the value it returned, whether the record's base_url matched.
NotLoaded == [case |-> "none", ok |-> FALSE, base_match |-> TRUE]

VARIABLES
    mgr,                \* the manager object the program constructed
    now,                \* time.time()
    \* SessionManager
    is_logged_in, last_activity, login_credentials, session_file,
    \* LoginManager: logged_in, and the cookie jar it shares with SessionManager
    lm_logged_in, cookies,
    \* AdminLoginManager: JSESSIONID in the jar, username/password, session file
    adm_cookie, adm_creds, adm_file,
    \* the credentials the program gave in its last set call
    cred_set,
    \* a second thread calling ensure_logged_in: its position, its loop variable
    pc2, retry_count2,
    \* the call in progress
    pc, op, entry, probes, accepted_by, sent, nAuto, auto_from, auto_result, ret,
    loaded, nSave,
    \* LoginManager.login in progress: arguments, loop variable, what it did
    max_retries, auto_captcha, captcha, retry_count,
    outcomes, nMainGet, nFetch, nSubmit, submits, login_result,
    \* a direct call of _encode_credentials: its arguments, what it returned
    enc_in, enc_out,
    \* a direct call of CaptchaSolver.solve_captcha: the OCR engine's answer,
    \* what the call returned
    ocr_in, ocr_out,
    \* AdminLoginManager.login called by the program: its steps in the order
    \* taken, the answer to its session-code request, the form it posted
    steps, scode_reply, payload

smVars == <<is_logged_in, last_activity, login_credentials, session_file>>
admVars == <<adm_cookie, adm_creds, adm_file>>
lmVars == <<lm_logged_in, cookies>>
caller2Vars == <<pc2, retry_count2>>
callVars == <<pc, op, entry, probes, accepted_by, sent, nAuto, auto_from, auto_result, ret,
              loaded, nSave>>
loginArgs == <<max_retries, auto_captcha, captcha>>
loginVars == <<retry_count, outcomes, nMainGet, nFetch, nSubmit, submits, login_result>>
directVars == <<enc_in, enc_out, ocr_in, ocr_out, steps, scode_reply, payload>>
vars == <<mgr, directVars, now, smVars, lmVars, admVars, cred_set, caller2Vars, callVars, loginArgs, loginVars>>

\* ------------------------------------------------------------ CaptchaSolver
\* solve_captcha on cleaned OCR text of length n: at least 4 characters are
\* cut to 4, exactly 3 are kept, anything shorter falls off the end of the
\* function, which returns None (absent = TRUE).
solve_captcha(n) ==
    IF n >= CAPTCHA_LEN THEN [absent |-> FALSE, success |-> TRUE, len |-> CAPTCHA_LEN]
    ELSE IF n = 3 THEN [absent |-> FALSE, success |-> TRUE, len |-> 3]
    ELSE [absent |-> TRUE, success |-> FALSE, len |-> 0]

\* ------------------------------------------------------------- LoginManager
\* "验证码" in error and retry_count < max_retries - 1
RetryAfterError_Never(error, rc, mx) == FALSE

RetryAfterError_AnyError(error, rc, mx) == rc < mx - 1

RetryAfterError(error, rc, mx) == error = ERR_CAPTCHA /\ rc < mx - 1

\* One pass of the body of `for retry_count in range(max_retries)` with the
\* replies the environment gives in it.  Yields what the pass did:
\*   outcome  what ended the pass
\*   mainget/fetched/submitted  the requests it issued
\*   image    the CAPTCHA text submitted (the number of the image it was
\*            read from; 0 is the caller's own text)
\*   returns  the pass executed a return; result = the dictionary returned
LastPass_OffByOne(rc, mx) == rc = mx

LastPass(rc, mx) == rc = mx - 1

ExceptPass(what, rc, mx, mg, fe, su, img) ==
    [outcome |-> what, mainget |-> mg, fetched |-> fe, submitted |-> su, image |-> img,
     returns |-> LastPass(rc, mx),
     result |-> [success |-> FALSE, message |-> MSG_TRANSPORT]]

PostPass(rc, mx, mg, fe, img, post) ==
    IF post.raised THEN ExceptPass("post_raised", rc, mx, mg, fe, TRUE, img)
    ELSE IF post.landing THEN
        [outcome |-> "success", mainget |-> mg, fetched |-> fe, submitted |-> TRUE,
         image |-> img, returns |-> TRUE,
         result |-> [success |-> TRUE, message |-> MSG_OK]]
    ELSE IF post.error # "" THEN
        [outcome |-> IF post.error = ERR_CAPTCHA THEN "captcha_error" ELSE "credential_error",
         mainget |-> mg, fetched |-> fe, submitted |-> TRUE, image |-> img,
         returns |-> ~RetryAfterError(post.error, rc, mx),
         result |-> IF RetryAfterError(post.error, rc, mx) THEN NoResult
                    ELSE [success |-> FALSE, message |-> post.error]]
    ELSE
        [outcome |-> "unknown", mainget |-> mg, fetched |-> fe, submitted |-> TRUE,
         image |-> img, returns |-> TRUE,
         result |-> [success |-> FALSE, message |-> MSG_UNKNOWN]]

CaptchaPass(rc, mx, cap, auto, mg, nextImage, fetch, ocrLen, post) ==
    IF cap THEN PostPass(rc, mx, mg, FALSE, 0, post)
    ELSE IF auto THEN
        IF fetch = "image" THEN
            IF solve_captcha(ocrLen).success THEN PostPass(rc, mx, mg, TRUE, nextImage, post)
            ELSE
                [outcome |-> "ocr_failed", mainget |-> mg, fetched |-> TRUE, submitted |-> FALSE,
                 image |-> 0, returns |-> LastPass(rc, mx),
                 result |-> [success |-> FALSE, message |-> MSG_OCR_FAILED]]
        ELSE
            [outcome |-> "fetch_failed", mainget |-> mg, fetched |-> TRUE, submitted |-> FALSE,
             image |-> 0, returns |-> LastPass(rc, mx),
             result |-> [success |-> FALSE, message |-> MSG_FETCH_FAILED]]
    ELSE
        [outcome |-> "need_captcha", mainget |-> mg, fetched |-> FALSE, submitted |-> FALSE,
         image |-> 0, returns |-> TRUE,
         result |-> [success |-> FALSE, message |-> MSG_NEED_CAPTCHA]]

LoginPass(rc, mx, cap, auto, nextImage, main, fetch, ocrLen, post) ==
    IF rc = 0 THEN
        IF main = "raised" THEN ExceptPass("main_raised", rc, mx, TRUE, FALSE, FALSE, 0)
        ELSE IF main = "non200" THEN
            [outcome |-> "main_failed", mainget |-> TRUE, fetched |-> FALSE, submitted |-> FALSE,
             image |-> 0, returns |-> TRUE,
             result |-> [success |-> FALSE, message |-> MSG_MAIN_FAILED]]
        ELSE CaptchaPass(rc, mx, cap, auto, TRUE, nextImage, fetch, ocrLen, post)
    ELSE CaptchaPass(rc, mx, cap, auto, FALSE, nextImage, fetch, ocrLen, post)

\* The environment answers only the requests a pass makes: the reply to a
\* request that is not made is held at a fixed value.
AskedOnly(rc, cap, auto, main, fetch, ocrLen, post) ==
    LET mainAsked == rc = 0
        fetchAsked == (mainAsked => main = "ok") /\ ~cap /\ auto
        ocrAsked == fetchAsked /\ fetch = "image"
        postAsked == /\ mainAsked => main = "ok"
                     /\ cap \/ (ocrAsked /\ solve_captcha(ocrLen).success)
    IN /\ mainAsked \/ main = "ok"
       /\ fetchAsked \/ fetch = "image"
       /\ ocrAsked \/ ocrLen = 0
       /\ postAsked \/ post = PostLanding

\* The portal sets its session cookie with the first reply it gives: a pass
\* in which a request was answered leaves the cookie in the jar.
Answered(p) ==
    \/ p.mainget /\ p.outcome # "main_raised"
    \/ p.outcome \in {"ocr_failed", "captcha_error", "credential_error", "unknown", "success"}

\* The bookkeeping of one pass: the loop variable, the requests issued, the
\* CAPTCHA texts submitted, and the result when the pass returned.
LoginRecord(p) ==
    /\ outcomes' = Append(outcomes, p.outcome)
    /\ nMainGet' = nMainGet + (IF p.mainget THEN 1 ELSE 0)
    /\ nFetch' = nFetch + (IF p.fetched THEN 1 ELSE 0)
    /\ nSubmit' = nSubmit + (IF p.submitted THEN 1 ELSE 0)
    /\ submits' = IF p.submitted THEN Append(submits, p.image) ELSE submits
    /\ retry_count' = IF p.returns THEN retry_count ELSE retry_count + 1
    /\ login_result' = IF p.returns THEN p.result ELSE login_result
    /\ lm_logged_in' = (lm_logged_in \/ (p.returns /\ p.result.success))
    /\ cookies' = IF Answered(p) THEN SetCookie(cookies, SessionCookie) ELSE cookies

\* login() hands its dictionary to its caller: the program (op = "login") or
\* SessionManager._auto_login.
LoginReturn(result) ==
    IF op = "login"
    THEN /\ pc' = "done"
         /\ ret' = [kind |-> "login_result", ok |-> result.success,
                    reason |-> result.message, page |-> NoPage]
    ELSE /\ pc' = "auto_login"
         /\ ret' = ret

LoginResetVars ==
    /\ retry_count' = 0
    /\ outcomes' = <<>>
    /\ nMainGet' = 0
    /\ nFetch' = 0
    /\ nSubmit' = 0
    /\ submits' = <<>>
    /\ login_result' = NoResult

\* LoginManager.login(username, password, captcha, auto_captcha, max_retries)
\* called by the program.
CallLogin(mx, cap, auto) ==
    /\ pc = "idle" /\ mgr = "LoginManager"
    /\ pc' = "login" /\ op' = "login"
    /\ max_retries' = mx /\ captcha' = cap /\ auto_captcha' = auto
    /\ LoginResetVars
    /\ UNCHANGED <<mgr, directVars, cred_set, caller2Vars, now, smVars, lmVars, admVars>>
    /\ UNCHANGED <<entry, probes, accepted_by, sent, nAuto, auto_from, auto_result, ret>>
    /\ UNCHANGED <<loaded, nSave>>

\* One pass of the retry loop of login().
LoginStep(main, fetch, ocrLen, post) ==
    /\ pc = "login" /\ retry_count < max_retries
    /\ AskedOnly(retry_count, captcha, auto_captcha, main, fetch, ocrLen, post)
    /\ LET p == LoginPass(retry_count, max_retries, captcha, auto_captcha,
                          nFetch + 1, main, fetch, ocrLen, post)
       IN /\ LoginRecord(p)
          /\ IF p.returns THEN LoginReturn(p.result)
             ELSE pc' = "login" /\ ret' = ret
    /\ UNCHANGED <<mgr, directVars, cred_set, caller2Vars, now, smVars, admVars, loginArgs>>
    /\ UNCHANGED <<op, entry, probes, accepted_by, sent, nAuto, auto_from, auto_result>>
    /\ UNCHANGED <<loaded, nSave>>

\* The return after the for statement: the loop ran out of passes without
\* returning (max_retries = 0 among them).
ExhaustedResult_None(mx) == NoResult

ExhaustedResult(mx) == [success |-> FALSE, message |-> MSG_EXHAUSTED]

LoginExhausted ==
    /\ pc = "login" /\ retry_count >= max_retries
    /\ login_result' = ExhaustedResult(max_retries)
    /\ LoginReturn(ExhaustedResult(max_retries))
    /\ UNCHANGED <<mgr, directVars, cred_set, caller2Vars, now, smVars, lmVars, admVars, loginArgs>>
    /\ UNCHANGED <<op, entry, probes, accepted_by, sent, nAuto, auto_from, auto_result>>
    /\ UNCHANGED <<loaded, nSave>>
    /\ UNCHANGED <<retry_count, outcomes, nMainGet, nFetch, nSubmit, submits>>

\* Replies to the GET of the logout page: answered, or the transport raised.
LogoutReplies == {"ok", "raised"}

\* The value of a call that returns None.
NoneRet == [kind |-> "none_value", ok |-> FALSE, reason |-> "", page |-> NoPage]

\* LoginManager.logout: the GET is sent only while logged_in; when it raises,
\* the bare except returns False before anything is cleared.
LmLogoutFailed(li, r) == li /\ r = "raised"

LmLogout(r) ==
    /\ pc = "idle" /\ mgr = "LoginManager"
    /\ lm_logged_in \/ r = "ok"
    /\ pc' = "done" /\ op' = "logout"
    /\ lm_logged_in' = IF LmLogoutFailed(lm_logged_in, r) THEN lm_logged_in ELSE FALSE
    /\ cookies' = IF LmLogoutFailed(lm_logged_in, r) THEN cookies ELSE NoCookies
    /\ ret' = [kind |-> "bool", ok |-> ~LmLogoutFailed(lm_logged_in, r), reason |-> "",
               page |-> NoPage]
    /\ UNCHANGED <<mgr, directVars, cred_set, caller2Vars, now, smVars, admVars>>
    /\ UNCHANGED <<entry, probes, accepted_by, sent, nAuto, auto_from, auto_result>>
    /\ UNCHANGED <<loaded, nSave, loginArgs, loginVars>>

\* The files LoginManager.load_session(file_path) is given: none, one that
\* does not parse, a record saved logged out, a record saved logged in.
LmFiles == {"missing", "corrupt", "logged_out", "logged_in"}

\* check_login_status with reply p to its GET of xsMain.jsp
CheckLoginStatus(li, p) == li /\ ~p.raised /\ p.status = 200 /\ ~p.url_login

\* LoginManager.load_session: ok = the value returned, then logged_in and the
\* jar afterwards; the record's cookies are a flat name -> value map.
LmLoad(f, p, li, jar) ==
    IF f \in {"missing", "corrupt"}
    THEN [ok |-> FALSE, case |-> f, logged_in |-> li, cookies |-> jar, probed |-> FALSE]
    ELSE IF f = "logged_out"
    THEN [ok |-> TRUE, case |-> "loaded", logged_in |-> FALSE, cookies |-> jar, probed |-> FALSE]
    ELSE [ok |-> CheckLoginStatus(TRUE, p), case |-> "loaded",
          logged_in |-> CheckLoginStatus(TRUE, p),
          cookies |-> RestoreCookies(jar, <<FlatEntry("JSESSIONID", "s1")>>),
          probed |-> TRUE]

LmLoadSession(f, p) ==
    /\ pc = "idle" /\ mgr = "LoginManager"
    /\ f = "logged_in" \/ p = PageOk
    /\ pc' = "done" /\ op' = "load_session"
    /\ LET ld == LmLoad(f, p, lm_logged_in, cookies)
       IN /\ lm_logged_in' = ld.logged_in
          /\ cookies' = ld.cookies
          /\ loaded' = [case |-> ld.case, ok |-> ld.ok, base_match |-> TRUE]
          /\ probes' = IF ld.probed
                       THEN <<[after |-> "store", raised |-> p.raised,
                               login_page |-> (~p.raised /\ p.url_login), passed |-> ld.ok]>>
                       ELSE <<>>
          /\ ret' = [kind |-> "bool", ok |-> ld.ok, reason |-> "", page |-> NoPage]
    /\ UNCHANGED <<mgr, directVars, cred_set, caller2Vars, now, smVars, admVars>>
    /\ UNCHANGED <<entry, accepted_by, sent, nAuto, auto_from, auto_result>>
    /\ UNCHANGED <<nSave, loginArgs, loginVars>>

\* ----------------------------------------------------------- SessionManager
\* time.time() - self._last_activity > self.session_timeout
TimedOut(t, la) == t - la > session_timeout

\* _is_login_redirect: a login indicator in the URL, or a login word in the body
IsLoginRedirect(r) == r.url_login \/ r.text_login

\* _is_session_valid with reply p to its GET of xsMain.jsp: valid = the value
\* returned, probed = the GET was issued.
SessionCheck_Optimistic(li, la, t, p) ==
    IF ~li \/ la = 0 THEN [valid |-> FALSE, probed |-> FALSE]
    ELSE IF TimedOut(t, la) THEN [valid |-> FALSE, probed |-> FALSE]
    ELSE [valid |-> TRUE, probed |-> FALSE]

SessionCheck(li, la, t, p) ==
    IF ~li \/ la = 0 THEN [valid |-> FALSE, probed |-> FALSE]
    ELSE IF TimedOut(t, la) THEN [valid |-> FALSE, probed |-> FALSE]
    ELSE IF p.raised THEN [valid |-> FALSE, probed |-> TRUE]
    ELSE IF IsLoginRedirect(p) THEN [valid |-> FALSE, probed |-> TRUE]
    ELSE [valid |-> (p.status = 200), probed |-> TRUE]

\* What is recorded of a validity probe: whether it followed the in-memory
\* check or the adoption of the stored session, whether its reply looked like
\* a login redirect, and the verdict of _is_session_valid.
ProbeRecord(after, p, valid) ==
    [after |-> after, raised |-> p.raised, login_page |-> (~p.raised /\ IsLoginRedirect(p)),
     passed |-> valid]

\* _load_session with the jar `jar`: ok = the value returned; case = the branch
\* that returned it; restored = the assignments to _is_logged_in and
\* _last_activity were executed, and then logged_in and last_activity are the
\* values assigned; cookies = the jar afterwards.  A file that does not parse
\* raises inside json.load and the except clause returns False; the recorded
\* base_url is not read.  An entry that raises inside the cookie loop ends
\* the call in the except clause ("partial"), after the two assignments and
\* the cookies before it, and before the login manager's fields are written.
LoadFailed(case, file, jar) ==
    [ok |-> FALSE, case |-> case, base_match |-> file.base_match, restored |-> FALSE,
     logged_in |-> FALSE, last_activity |-> 0, cookies |-> jar]

LoadSession_NoExpiry(file, t, jar) ==
    IF ~file.exists THEN LoadFailed("missing", file, jar)
    ELSE IF file.corrupt THEN LoadFailed("corrupt", file, jar)
    ELSE [ok |-> TRUE, case |-> "loaded", base_match |-> file.base_match, restored |-> TRUE,
          logged_in |-> file.logged_in, last_activity |-> file.last_activity,
          cookies |-> RestoreCookies(jar, file.cookies)]

LoadSession(file, t, jar) ==
    IF ~file.exists THEN LoadFailed("missing", file, jar)
    ELSE IF file.corrupt THEN LoadFailed("corrupt", file, jar)
    ELSE IF t - file.saved_time > session_timeout THEN LoadFailed("expired", file, jar)
    ELSE LET rs == RestoreUntilError(jar, file.cookies)
         IN [ok |-> ~rs.raised, case |-> IF rs.raised THEN "partial" ELSE "loaded",
             base_match |-> file.base_match, restored |-> TRUE,
             logged_in |-> file.logged_in, last_activity |-> file.last_activity,
             cookies |-> rs.jar]

LoadRecord(ld) == [case |-> ld.case, ok |-> ld.ok, base_match |-> ld.base_match]

\* _auto_login refuses to start without credentials.
CanAutoLogin_Unchecked(creds) == TRUE

CanAutoLogin_Never(creds) == FALSE

CanAutoLogin(creds) == creds # NoCred

StartAutoLogin_OneMore(from) ==
    /\ pc' = "login"
    /\ auto_from' = from
    /\ max_retries' = AUTO_LOGIN_RETRIES + 1 /\ captcha' = FALSE /\ auto_captcha' = TRUE
    /\ LoginResetVars

\* _auto_login calls login(username, password, auto_captcha=True, max_retries=3).
StartAutoLogin(from) ==
    /\ pc' = "login"
    /\ auto_from' = from
    /\ max_retries' = AUTO_LOGIN_RETRIES /\ captcha' = FALSE /\ auto_captcha' = TRUE
    /\ LoginResetVars

BoolRet(b) == [kind |-> "bool", ok |-> b, reason |-> "", page |-> NoPage]
RaiseRet(msg) == [kind |-> "exception", ok |-> FALSE, reason |-> msg, page |-> NoPage]
PageRet(r) == [kind |-> "response", ok |-> TRUE, reason |-> "", page |-> r]

\* What ensure_logged_in() = b means to the operation o that asked for it:
\* ensure_logged_in returns b; request goes on to send, or raises.
Ensured(o, b) ==
    IF o = "ensure_logged_in" THEN pc' = "done" /\ ret' = BoolRet(b)
    ELSE IF b THEN pc' = "send" /\ ret' = ret
    ELSE pc' = "done" /\ ret' = RaiseRet(EXC_NO_SESSION)

\* ensure_logged_in(), called by the program (o = "ensure_logged_in") or as
\* the first statement of request() (o = "request"), up to its return or to
\* the login() call of _auto_login.  p1, p2: the replies to the validity
\* probes of the two _is_session_valid calls.
EnsureLoggedIn(o, p1, p2) ==
    /\ pc = "idle" /\ mgr = "SessionManager"
    /\ SessionCheck(is_logged_in, last_activity, now, p1).probed \/ p1 = PageOk
    /\ op' = o
    /\ entry' = [logged_in |-> is_logged_in, last_activity |-> last_activity]
    /\ LET c1 == SessionCheck(is_logged_in, last_activity, now, p1)
           ld == LoadSession(session_file, now, cookies)
           restored == ~c1.valid /\ ld.ok
           li == IF ~c1.valid /\ ld.restored THEN ld.logged_in ELSE is_logged_in
           la == IF ~c1.valid /\ ld.restored THEN ld.last_activity ELSE last_activity
           c2 == IF restored THEN SessionCheck(li, la, now, p2)
                 ELSE [valid |-> FALSE, probed |-> FALSE]
           pr1 == IF c1.probed THEN <<ProbeRecord("memory", p1, c1.valid)>> ELSE <<>>
           pr2 == IF c2.probed THEN <<ProbeRecord("store", p2, c2.valid)>> ELSE <<>>
       IN /\ probes' = pr1 \o pr2
          /\ is_logged_in' = li
          /\ last_activity' = la
          /\ lm_logged_in' = IF restored THEN li ELSE lm_logged_in
          /\ cookies' = IF ~c1.valid THEN ld.cookies ELSE cookies
          /\ loaded' = IF c1.valid THEN NotLoaded ELSE LoadRecord(ld)
          /\ IF c1.valid THEN
                 /\ accepted_by' = "memory"
                 /\ Ensured(o, TRUE)
                 /\ UNCHANGED <<auto_from, loginArgs, loginVars>>
             ELSE IF c2.valid THEN
                 /\ accepted_by' = "store"
                 /\ Ensured(o, TRUE)
                 /\ UNCHANGED <<auto_from, loginArgs, loginVars>>
             ELSE IF CanAutoLogin(login_credentials) THEN
                 /\ accepted_by' = "login"
                 /\ StartAutoLogin("ensure_logged_in")
                 /\ ret' = ret
             ELSE
                 /\ accepted_by' = "none"
                 /\ Ensured(o, FALSE)
                 /\ UNCHANGED <<auto_from, loginArgs, loginVars>>
    /\ UNCHANGED <<mgr, directVars, cred_set, caller2Vars, now, login_credentials, session_file, admVars>>
    /\ UNCHANGED <<sent, nAuto, auto_result, nSave>>

\* save_session as _auto_login calls it; it returns False when the write fails.
SavedFile(file, li, la, t, jar, saveOk) ==
    IF saveOk
    THEN [exists |-> TRUE, corrupt |-> FALSE, base_match |-> TRUE, logged_in |-> li,
          last_activity |-> la, saved_time |-> t, cookies |-> SavedCookies(jar)]
    ELSE file

\* What the caller of a failed _auto_login gets: ensure_logged_in returns
\* False, request raises one of its two fixed exceptions.
AutoLoginFailure(o, from, result) ==
    IF o = "ensure_logged_in" THEN BoolRet(FALSE)
    ELSE IF from = "ensure_logged_in" THEN RaiseRet(EXC_NO_SESSION)
    ELSE RaiseRet(EXC_RELOGIN_FAILED)

\* Where control goes when _auto_login returned True: ensure_logged_in
\* returns; request, after its ensure_logged_in, sends the request; request,
\* after a login redirect, sends the request a second time.
AfterAutoLogin_Loop(o, from) ==
    IF o = "ensure_logged_in" THEN "done" ELSE "send"

AfterAutoLogin(o, from) ==
    IF o = "ensure_logged_in" THEN "done"
    ELSE IF from = "ensure_logged_in" THEN "send"
    ELSE "resend"

\* _auto_login after login() returned, and the statement of its caller that
\* follows: ensure_logged_in returns it; request sends, resends or raises.
AutoLoginReturn(saveOk) ==
    /\ pc = "auto_login"
    /\ auto_result' = login_result
    /\ IF login_result.success THEN
           /\ is_logged_in' = TRUE
           /\ last_activity' = now
           /\ session_file' = SavedFile(session_file, TRUE, now, now, cookies, saveOk)
           /\ nSave' = nSave + 1
           /\ pc' = AfterAutoLogin(op, auto_from)
           /\ ret' = IF op = "ensure_logged_in" THEN BoolRet(TRUE) ELSE ret
       ELSE
           /\ UNCHANGED <<is_logged_in, last_activity, session_file, nSave>>
           /\ pc' = "done"
           /\ ret' = AutoLoginFailure(op, auto_from, login_result)
    /\ UNCHANGED <<mgr, directVars, cred_set, caller2Vars, now, login_credentials, lmVars, admVars, loginArgs, loginVars>>
    /\ UNCHANGED <<op, entry, probes, accepted_by, sent, nAuto, auto_from, loaded>>

\* request() from self.session.request(...) to the end of the login-redirect
\* test; r: the reply to the request.  ensure_logged_in has returned: what
\* is recorded of it (entry, probes, accepted_by, its login) is dropped.
RequestSend(r) ==
    /\ pc = "send"
    /\ sent' = Append(sent, r)
    /\ entry' = NoEntry /\ probes' = <<>> /\ accepted_by' = "none" /\ auto_result' = NoResult
    /\ loaded' = NotLoaded /\ nSave' = 0
    /\ IF r.raised THEN
           /\ pc' = "done" /\ ret' = RaiseRet(MSG_TRANSPORT)
           /\ UNCHANGED <<last_activity, nAuto, auto_from, loginArgs>>
           /\ LoginResetVars
       ELSE
           /\ last_activity' = now
           /\ IF IsLoginRedirect(r) THEN
                  /\ nAuto' = nAuto + 1
                  /\ IF CanAutoLogin(login_credentials) THEN
                         /\ StartAutoLogin("request")
                         /\ ret' = ret
                     ELSE
                         /\ pc' = "done" /\ ret' = RaiseRet(EXC_RELOGIN_FAILED)
                         /\ UNCHANGED <<auto_from, loginArgs>>
                         /\ LoginResetVars
              ELSE
                  /\ pc' = "done" /\ ret' = PageRet(r)
                  /\ UNCHANGED <<nAuto, auto_from, loginArgs>>
                  /\ LoginResetVars
    /\ UNCHANGED <<mgr, directVars, cred_set, caller2Vars, now, is_logged_in, login_credentials, session_file, admVars>>
    /\ UNCHANGED <<op, lm_logged_in, cookies>>

\* The result of request() after the second self.session.request(...).
ResendResult(r) == PageRet(r)

\* request() after a successful re-login: the request is issued again and
\* its reply returned.
RequestResend(r) ==
    /\ pc = "resend"
    /\ sent' = Append(sent, r)
    /\ pc' = "done"
    /\ IF r.raised THEN
           /\ ret' = RaiseRet(MSG_TRANSPORT)
           /\ UNCHANGED last_activity
       ELSE
           /\ last_activity' = now
           /\ ret' = ResendResult(r)
    /\ UNCHANGED <<mgr, directVars, cred_set, caller2Vars, now, is_logged_in, login_credentials, session_file, admVars>>
    /\ UNCHANGED <<op, entry, probes, accepted_by, nAuto, auto_from, auto_result>>
    /\ UNCHANGED <<lmVars, loaded, nSave, loginArgs, loginVars>>

\* set_login_credentials(username, password)
SetLoginCredentials(c) ==
    /\ pc = "idle" /\ mgr = "SessionManager"
    /\ login_credentials' = c
    /\ cred_set' = c
    /\ UNCHANGED <<mgr, directVars, caller2Vars, now, is_logged_in, last_activity, session_file, lmVars, admVars>>
    /\ UNCHANGED <<callVars, loginArgs, loginVars>>

\* clear_session(): removeOk = os.remove succeeded; when it raises, the
\* except clause logs a warning and the file stays.
Removed(file, removeOk) == IF file.exists /\ ~removeOk THEN file ELSE NoFile

ClearSession(removeOk) ==
    /\ pc = "idle" /\ mgr = "SessionManager"
    /\ session_file.exists \/ removeOk
    /\ pc' = "done" /\ op' = "clear_session"
    /\ is_logged_in' = FALSE
    /\ last_activity' = 0
    /\ cookies' = NoCookies
    /\ lm_logged_in' = FALSE
    /\ session_file' = Removed(session_file, removeOk)
    /\ ret' = NoneRet
    /\ UNCHANGED <<mgr, directVars, cred_set, caller2Vars, now, login_credentials, admVars>>
    /\ UNCHANGED <<entry, probes, accepted_by, sent, nAuto, auto_from, auto_result>>
    /\ UNCHANGED <<loaded, nSave, loginArgs, loginVars>>

\* -------------------------------------------------------- AdminLoginManager
\* Replies to POST /Logon.do?method=logon (redirects not followed):
\* redirect_main = a 30x whose Location holds "main" or "index"; body = the
\* kind of keyword the body holds.
AdmPostRedirect == [raised |-> FALSE, redirect_main |-> TRUE, body |-> "neutral"]
AdmPostSuccess == [raised |-> FALSE, redirect_main |-> FALSE, body |-> "success"]
AdmPostFailure == [raised |-> FALSE, redirect_main |-> FALSE, body |-> "failure"]
AdmPostNeutral == [raised |-> FALSE, redirect_main |-> FALSE, body |-> "neutral"]
AdmPostRaised == [raised |-> TRUE, redirect_main |-> FALSE, body |-> "neutral"]
AdmPostReplies == {AdmPostRedirect, AdmPostSuccess, AdmPostFailure, AdmPostNeutral, AdmPostRaised}
ScodeReplies == {"code", "failed"}

MSG_SCODE_FAILED == "session code failed"
MSG_ADMIN_FAILED == "login failed, check username, password and captcha"
EXC_TYPE_ERROR == "TypeError: NoneType is not subscriptable"

\* _check_login_success(response), with `cookie` = JSESSIONID is in the jar
CheckLoginSuccess(post, cookie) ==
    IF post.redirect_main THEN TRUE
    ELSE IF post.body = "success" THEN TRUE
    ELSE IF post.body = "failure" THEN FALSE
    ELSE cookie

\* AdminLoginManager.load_session: ok = the value returned; cookie, creds =
\* the jar and username/password afterwards.
\* case = the branch that returned; a file that does not parse raises inside
\* json.load and the except clause returns False; a base_url that differs
\* from the configured one is printed as a warning only.
AdmLoadSession(file, cookie, creds) ==
    IF ~file.exists
    THEN [ok |-> FALSE, case |-> "missing", base_match |-> file.base_match,
          cookie |-> cookie, creds |-> creds]
    ELSE IF file.corrupt
    THEN [ok |-> FALSE, case |-> "corrupt", base_match |-> file.base_match,
          cookie |-> cookie, creds |-> creds]
    ELSE [ok |-> TRUE, case |-> "loaded", base_match |-> file.base_match,
          cookie |-> (cookie \/ file.cookie), creds |-> file.creds]

\* AdminLoginManager.save_session: the record written.
AdmSavedFile(cookie, creds) ==
    [exists |-> TRUE, corrupt |-> FALSE, base_match |-> TRUE, cookie |-> cookie, creds |-> creds]

\* AdminLoginManager.is_logged_in: 'JSESSIONID' in self.session.cookies
AdmIsLoggedIn(cookie) == cookie

\* The credential test of AdminLoginManager.ensure_logged_in.
AdmHasCredentials(creds) == creds # NoCred

\* AdminLoginManager.login(username, password, captcha, auto_captcha) with the
\* replies of the environment; jsid = the portal's replies set JSESSIONID.
\* raises = the call raised instead of returning a dictionary.
AdmLogin(cap, auto, cookie, jsid, fetch, ocrLen, scode, post) ==
    LET fetched == auto
        solved == solve_captcha(ocrLen)
        ck1 == cookie \/ (fetched /\ fetch = "image" /\ jsid)
        ck2 == ck1 \/ (scode = "code" /\ jsid)
        ck3 == ck2 \/ (~post.raised /\ jsid)
        stop(what, msg, fe, sc, su, ck, rs) ==
            [outcome |-> what, fetched |-> fe, coded |-> sc, submitted |-> su, cookie |-> ck,
             raises |-> rs, result |-> [success |-> FALSE, message |-> msg]]
    IN IF auto /\ fetch # "image"
           THEN stop("fetch_failed", MSG_OCR_FAILED, TRUE, FALSE, FALSE, cookie, FALSE)
       ELSE IF auto /\ solved.absent
           THEN stop("ocr_absent", EXC_TYPE_ERROR, TRUE, FALSE, FALSE, ck1, TRUE)
       ELSE IF auto /\ ~solved.success
           THEN stop("ocr_failed", MSG_OCR_FAILED, TRUE, FALSE, FALSE, ck1, FALSE)
       ELSE IF ~auto /\ ~cap
           THEN stop("need_captcha", MSG_NEED_CAPTCHA, FALSE, FALSE, FALSE, cookie, FALSE)
       ELSE IF scode # "code"
           THEN stop("scode_failed", MSG_SCODE_FAILED, fetched, TRUE, FALSE, ck1, FALSE)
       ELSE IF post.raised
           THEN stop("post_raised", MSG_TRANSPORT, fetched, TRUE, TRUE, ck2, FALSE)
       ELSE IF CheckLoginSuccess(post, ck3)
           THEN [outcome |-> "success", fetched |-> fetched, coded |-> TRUE, submitted |-> TRUE,
                 cookie |-> ck3, raises |-> FALSE,
                 result |-> [success |-> TRUE, message |-> MSG_OK]]
       ELSE stop("rejected", MSG_ADMIN_FAILED, fetched, TRUE, TRUE, ck3, FALSE)

\* AdminLoginManager.ensure_logged_in(captcha, auto_captcha)
AdminEnsureLoggedIn(cap, auto, jsid, fetch, ocrLen, scode, post) ==
    /\ pc = "idle" /\ mgr = "AdminLoginManager"
    /\ pc' = "done" /\ op' = "ensure_logged_in"
    /\ probes' = <<>>
    /\ max_retries' = 1 /\ captcha' = cap /\ auto_captcha' = auto
    /\ loaded' = LoadRecord(AdmLoadSession(adm_file, adm_cookie, adm_creds))
    /\ LET ld == AdmLoadSession(adm_file, adm_cookie, adm_creds)
           lg == AdmLogin(cap, auto, ld.cookie, jsid, fetch, ocrLen, scode, post)
       IN IF ld.ok /\ AdmIsLoggedIn(ld.cookie) THEN
              /\ accepted_by' = "store"
              /\ ret' = BoolRet(TRUE)
              /\ adm_cookie' = ld.cookie /\ adm_creds' = ld.creds
              /\ UNCHANGED <<adm_file, loginVars, nSave>>
          ELSE IF ~AdmHasCredentials(ld.creds) \/ (~cap /\ ~auto) THEN
              /\ accepted_by' = "none"
              /\ ret' = BoolRet(FALSE)
              /\ adm_cookie' = ld.cookie /\ adm_creds' = ld.creds
              /\ UNCHANGED <<adm_file, loginVars, nSave>>
          ELSE
              /\ accepted_by' = "login"
              /\ adm_cookie' = lg.cookie /\ adm_creds' = ld.creds
              /\ adm_file' = IF lg.result.success THEN AdmSavedFile(lg.cookie, ld.creds)
                             ELSE adm_file
              /\ nSave' = IF lg.result.success THEN 2 ELSE 0
              /\ ret' = IF lg.raises THEN RaiseRet(lg.result.message)
                        ELSE BoolRet(lg.result.success)
              /\ outcomes' = <<lg.outcome>>
              /\ nMainGet' = 0
              /\ nFetch' = IF lg.fetched THEN 1 ELSE 0
              /\ nSubmit' = IF lg.submitted THEN 1 ELSE 0
              /\ submits' = IF lg.submitted THEN <<IF auto THEN 1 ELSE 0>> ELSE <<>>
              /\ retry_count' = 0
              /\ login_result' = lg.result
    /\ UNCHANGED <<mgr, directVars, cred_set, caller2Vars, now, smVars, lmVars>>
    /\ UNCHANGED <<entry, sent, nAuto, auto_from, auto_result>>

\* AdminLoginManager.set_credentials(username, password)
AdminSetCredentials(c) ==
    /\ pc = "idle" /\ mgr = "AdminLoginManager"
    /\ adm_creds' = c
    /\ cred_set' = c
    /\ UNCHANGED <<mgr, directVars, caller2Vars, now, smVars, lmVars, adm_cookie, adm_file>>
    /\ UNCHANGED <<callVars, loginArgs, loginVars>>

\* AdminLoginManager.logout(): the GET of the logout page; the jar and the
\* credentials are not touched.
AdminLogout(r) ==
    /\ pc = "idle" /\ mgr = "AdminLoginManager"
    /\ pc' = "done" /\ op' = "logout"
    /\ ret' = BoolRet(r = "ok")
    /\ UNCHANGED <<mgr, directVars, cred_set, caller2Vars, now, smVars, lmVars, admVars>>
    /\ UNCHANGED <<entry, probes, accepted_by, sent, nAuto, auto_from, auto_result>>
    /\ UNCHANGED <<loaded, nSave, loginArgs, loginVars>>

\* ------------------------------------------------------------- environment
\* Between two calls the session file is written from outside the manager:
\* by an instance configured for another portal that shares the path
\* ("foreign"), or cut short so that it does not parse ("corrupt").
StoredKinds == {"corrupt", "foreign"}

StoreWritten(k) ==
    /\ pc = "idle" /\ mgr \in {"SessionManager", "AdminLoginManager"}
    /\ IF mgr = "SessionManager"
       THEN /\ session_file' = IF k = "corrupt" THEN CorruptFile ELSE ForeignFile(now)
            /\ UNCHANGED adm_file
       ELSE /\ adm_file' = IF k = "corrupt" THEN AdmCorruptFile ELSE AdmForeignFile
            /\ UNCHANGED session_file
    /\ UNCHANGED <<mgr, directVars, cred_set, caller2Vars, now, is_logged_in, last_activity, login_credentials>>
    /\ UNCHANGED <<lmVars, adm_cookie, adm_creds, callVars, loginArgs, loginVars>>

\* Time passes between two calls of the program.
Tick ==
    /\ pc = "idle" /\ now < MaxTime
    /\ now' = now + 1
    /\ UNCHANGED <<mgr, directVars, cred_set, caller2Vars, smVars, lmVars, admVars, callVars, loginArgs, loginVars>>

\* The call hands its result to the program; its locals are gone.
Return ==
    /\ pc = "done"
    /\ pc' = "idle" /\ op' = "none" /\ entry' = NoEntry /\ probes' = <<>>
    /\ accepted_by' = "none" /\ sent' = <<>> /\ nAuto' = 0 /\ auto_from' = "none"
    /\ auto_result' = NoResult /\ ret' = NoRet
    /\ loaded' = NotLoaded /\ nSave' = 0
    /\ max_retries' = 0 /\ auto_captcha' = FALSE /\ captcha' = FALSE
    /\ LoginResetVars
    /\ UNCHANGED <<mgr, directVars, cred_set, caller2Vars, now, smVars, lmVars, admVars>>

\* No direct call of a helper has been made.
NoCall == [called |-> FALSE]

DirectIdle ==
    /\ enc_in = NoCall /\ enc_out = NoCall
    /\ ocr_in = NoCall /\ ocr_out = NoCall
    /\ steps = <<>> /\ scode_reply = NoCall /\ payload = NoCall

Init ==
    /\ mgr \in Managers
    /\ now = 1
    /\ is_logged_in = FALSE /\ last_activity = 0
    /\ login_credentials = NoCred /\ session_file = NoFile
    /\ lm_logged_in = FALSE /\ cookies = NoCookies
    /\ adm_cookie = FALSE /\ adm_creds = NoCred /\ adm_file = AdmNoFile
    /\ cred_set = NoCred
    /\ pc2 = "idle" /\ retry_count2 = 0
    /\ loaded = NotLoaded /\ nSave = 0
    /\ pc = "idle" /\ op = "none" /\ entry = NoEntry /\ probes = <<>>
    /\ accepted_by = "none" /\ sent = <<>> /\ nAuto = 0 /\ auto_from = "none"
    /\ auto_result = NoResult /\ ret = NoRet
    /\ max_retries = 0 /\ auto_captcha = FALSE /\ captcha = FALSE
    /\ retry_count = 0 /\ outcomes = <<>> /\ nMainGet = 0 /\ nFetch = 0
    /\ nSubmit = 0 /\ submits = <<>> /\ login_result = NoResult
    /\ DirectIdle

Next ==
    \/ \E mx \in 0..MaxRetriesArg, cap \in BOOLEAN, auto \in BOOLEAN : CallLogin(mx, cap, auto)
    \/ \E main \in MainReplies, fetch \in FetchReplies, ocrLen \in 0..MaxOcrLen,
          post \in PostReplies : LoginStep(main, fetch, ocrLen, post)
    \/ LoginExhausted
    \/ \E o \in {"ensure_logged_in", "request"}, p1 \in PageReplies, p2 \in PageReplies :
          EnsureLoggedIn(o, p1, p2)
    \/ \E saveOk \in BOOLEAN : AutoLoginReturn(saveOk)
    \/ \E r \in PageReplies : RequestSend(r)
    \/ \E r \in PageReplies : RequestResend(r)
    \/ \E c \in Credentials : SetLoginCredentials(c)
    \/ \E cap \in BOOLEAN, auto \in BOOLEAN, jsid \in BOOLEAN, fetch \in FetchReplies,
          ocrLen \in 0..MaxOcrLen, scode \in ScodeReplies, post \in AdmPostReplies :
          AdminEnsureLoggedIn(cap, auto, jsid, fetch, ocrLen, scode, post)
    \/ \E c \in AdminCredentials : AdminSetCredentials(c)
    \/ \E r \in LogoutReplies : LmLogout(r)
    \/ \E f \in LmFiles, p \in PageReplies : LmLoadSession(f, p)
    \/ \E removeOk \in BOOLEAN : ClearSession(removeOk)
    \/ \E r \in LogoutReplies : AdminLogout(r)
    \/ Tick
    \/ Return

Spec == Init /\ [][Next]_vars

\* The managers over a session file that is also written from outside.  The
\* portal answers the login of a re-authentication without transport or
\* CAPTCHA trouble: the first pass is accepted or rejected for its credentials.
PlainPostReplies == {PostLanding, PostCredErr}

NextStore ==
    \/ \E k \in StoredKinds : StoreWritten(k)
    \/ \E o \in {"ensure_logged_in", "request"}, p1 \in PageReplies, p2 \in PageReplies :
          EnsureLoggedIn(o, p1, p2)
    \/ \E post \in PlainPostReplies : LoginStep("ok", "image", CAPTCHA_LEN, post)
    \/ \E saveOk \in BOOLEAN : AutoLoginReturn(saveOk)
    \/ \E r \in PageReplies : RequestSend(r)
    \/ \E r \in PageReplies : RequestResend(r)
    \/ \E c \in Credentials : SetLoginCredentials(c)
    \/ \E removeOk \in BOOLEAN : ClearSession(removeOk)
    \/ \E cap \in BOOLEAN, auto \in BOOLEAN, jsid \in BOOLEAN, fetch \in FetchReplies,
          ocrLen \in 0..MaxOcrLen, scode \in ScodeReplies, post \in AdmPostReplies :
          AdminEnsureLoggedIn(cap, auto, jsid, fetch, ocrLen, scode, post)
    \/ \E c \in AdminCredentials : AdminSetCredentials(c)
    \/ \E f \in LmFiles, p \in PageReplies : LmLoadSession(f, p)
    \/ Tick
    \/ Return

SpecStore == Init /\ [][NextStore]_vars

\* ------------------------------------------------- _load_session by itself
\* _load_session() as ensure_logged_in and _auto_load_session call it, taken
\* alone: the stored record and the jar it meets are drawn by the initial
\* state, the action applies the loader.
LoadStoredSession ==
    /\ pc = "idle" /\ mgr = "SessionManager"
    /\ pc' = "done" /\ op' = "_load_session"
    /\ LET ld == LoadSession(session_file, now, cookies)
       IN /\ is_logged_in' = IF ld.restored THEN ld.logged_in ELSE is_logged_in
          /\ last_activity' = IF ld.restored THEN ld.last_activity ELSE last_activity
          /\ lm_logged_in' = IF ld.ok THEN ld.logged_in ELSE lm_logged_in
          /\ cookies' = ld.cookies
          /\ loaded' = LoadRecord(ld)
          /\ ret' = BoolRet(ld.ok)
    /\ UNCHANGED <<mgr, directVars, cred_set, caller2Vars, now, login_credentials, session_file, admVars>>
    /\ UNCHANGED <<entry, probes, accepted_by, sent, nAuto, auto_from, auto_result>>
    /\ UNCHANGED <<nSave, loginArgs, loginVars>>

\* save_session() called by the program: the record of the session in memory
\* replaces the file, or the write fails and the call returns False.
SaveSession(saveOk) ==
    /\ pc = "idle" /\ mgr = "SessionManager"
    /\ pc' = "done" /\ op' = "save_session"
    /\ session_file' = SavedFile(session_file, is_logged_in, last_activity, now, cookies, saveOk)
    /\ nSave' = nSave + 1
    /\ ret' = BoolRet(saveOk)
    /\ UNCHANGED <<mgr, directVars, cred_set, caller2Vars, now, is_logged_in, last_activity>>
    /\ UNCHANGED <<login_credentials, lm_logged_in, cookies, admVars>>
    /\ UNCHANGED <<entry, probes, accepted_by, sent, nAuto, auto_from, auto_result>>
    /\ UNCHANGED <<loaded, loginArgs, loginVars>>

\* Stored records of every shape: up to MaxCookies entries with distinct
\* names, each flat, structured or structured without its value; no file at
\* all; jars that already hold older cookies; a manager that was or was not
\* logged in before the call.
CookieNames == {"JSESSIONID", "SERVERID", "route"}
CookieValues == {"s1", "s2"}
StoredEntries ==
    {FlatEntry(n, v) : n \in CookieNames, v \in CookieValues} \cup
    {StructuredEntry([name |-> n, value |-> v, domain |-> PORTAL_DOMAIN, path |-> "/"]) :
        n \in CookieNames, v \in CookieValues} \cup
    {NoValueEntry(n) : n \in CookieNames}
StoredCookieLists ==
    {es \in UNION {[1..n -> StoredEntries] : n \in 0..MaxCookies} :
        \A i \in 1..Len(es), j \in 1..Len(es) : i # j => es[i].name # es[j].name}
OldCookies ==
    {[name |-> "JSESSIONID", value |-> "s0", domain |-> d, path |-> "/"] :
        d \in {"", PORTAL_DOMAIN}}

InitLoadCookies ==
    /\ mgr = "SessionManager"
    /\ now = 1
    /\ is_logged_in \in BOOLEAN
    /\ last_activity = IF is_logged_in THEN 1 ELSE 0
    /\ login_credentials = NoCred
    /\ \/ session_file = NoFile
       \/ \E es \in StoredCookieLists, li \in BOOLEAN :
             session_file = [exists |-> TRUE, corrupt |-> FALSE, base_match |-> TRUE,
                             logged_in |-> li, last_activity |-> 1, saved_time |-> 1,
                             cookies |-> es]
    /\ lm_logged_in = is_logged_in /\ cookies \in SUBSET OldCookies
    /\ adm_cookie = FALSE /\ adm_creds = NoCred /\ adm_file = AdmNoFile
    /\ cred_set = NoCred
    /\ pc2 = "idle" /\ retry_count2 = 0
    /\ loaded = NotLoaded /\ nSave = 0
    /\ pc = "idle" /\ op = "none" /\ entry = NoEntry /\ probes = <<>>
    /\ accepted_by = "none" /\ sent = <<>> /\ nAuto = 0 /\ auto_from = "none"
    /\ auto_result = NoResult /\ ret = NoRet
    /\ max_retries = 0 /\ auto_captcha = FALSE /\ captcha = FALSE
    /\ retry_count = 0 /\ outcomes = <<>> /\ nMainGet = 0 /\ nFetch = 0
    /\ nSubmit = 0 /\ submits = <<>> /\ login_result = NoResult
    /\ DirectIdle

NextLoadCookies ==
    \/ LoadStoredSession
    \/ \E saveOk \in BOOLEAN : SaveSession(saveOk)
    \/ Tick
    \/ Return

SpecLoadCookies == InitLoadCookies /\ [][NextLoadCookies]_vars

\* ------------------------------------------------------------ second thread
\* A second thread of the program calls ensure_logged_in() on the same
\* SessionManager.  Nothing in the class takes a lock: its statements run
\* whenever the thread is scheduled, between two steps of the first caller.
\* ensure_logged_in up to its return (the thread is back at "idle") or up to
\* the login() call of _auto_login.
Caller2Ensure(p1, p2) ==
    /\ mgr = "SessionManager" /\ pc2 = "idle"
    /\ SessionCheck(is_logged_in, last_activity, now, p1).probed \/ p1 = PageOk
    /\ LET c1 == SessionCheck(is_logged_in, last_activity, now, p1)
           ld == LoadSession(session_file, now, cookies)
           restored == ~c1.valid /\ ld.ok
           li == IF ~c1.valid /\ ld.restored THEN ld.logged_in ELSE is_logged_in
           la == IF ~c1.valid /\ ld.restored THEN ld.last_activity ELSE last_activity
           c2 == IF restored THEN SessionCheck(li, la, now, p2)
                 ELSE [valid |-> FALSE, probed |-> FALSE]
       IN /\ c2.probed \/ p2 = PageOk
          /\ is_logged_in' = li
          /\ last_activity' = la
          /\ lm_logged_in' = IF restored THEN li ELSE lm_logged_in
          /\ cookies' = IF ~c1.valid THEN ld.cookies ELSE cookies
          /\ pc2' = IF ~c1.valid /\ ~c2.valid /\ CanAutoLogin(login_credentials)
                    THEN "login" ELSE "idle"
    /\ retry_count2' = 0
    /\ UNCHANGED <<mgr, directVars, cred_set, now, login_credentials, session_file, admVars>>
    /\ UNCHANGED <<callVars, loginArgs, loginVars>>

\* One pass of the loop of the second thread's login(auto_captcha=True,
\* max_retries=3); when the pass returns, the rest of its _auto_login.
Caller2LoginStep(main, fetch, ocrLen, post) ==
    /\ pc2 = "login" /\ retry_count2 < AUTO_LOGIN_RETRIES
    /\ AskedOnly(retry_count2, FALSE, TRUE, main, fetch, ocrLen, post)
    /\ LET p == LoginPass(retry_count2, AUTO_LOGIN_RETRIES, FALSE, TRUE, 0,
                          main, fetch, ocrLen, post)
           success == p.returns /\ p.result.success
       IN /\ cookies' = IF Answered(p) THEN SetCookie(cookies, SessionCookie) ELSE cookies
          /\ lm_logged_in' = (lm_logged_in \/ success)
          /\ is_logged_in' = (is_logged_in \/ success)
          /\ last_activity' = IF success THEN now ELSE last_activity
          /\ session_file' = IF success
                             THEN SavedFile(session_file, TRUE, now, now, cookies', TRUE)
                             ELSE session_file
          /\ pc2' = IF p.returns THEN "idle" ELSE "login"
          /\ retry_count2' = IF p.returns THEN 0 ELSE retry_count2 + 1
    /\ UNCHANGED <<mgr, directVars, cred_set, now, login_credentials, admVars>>
    /\ UNCHANGED <<callVars, loginArgs, loginVars>>

\* Two callers of one SessionManager that holds credentials; the portal
\* answers every login request, accepting or rejecting the CAPTCHA text.
CaptchaPostReplies == {PostLanding, PostCaptchaErr}

InitTwoCallers == Init /\ mgr = "SessionManager"

NextTwoCallers ==
    \/ \E c \in Credentials : SetLoginCredentials(c)
    \/ \E o \in {"ensure_logged_in", "request"}, p1 \in PageReplies, p2 \in PageReplies :
          EnsureLoggedIn(o, p1, p2)
    \/ \E post \in CaptchaPostReplies : LoginStep("ok", "image", CAPTCHA_LEN, post)
    \/ \E saveOk \in BOOLEAN : AutoLoginReturn(saveOk)
    \/ \E r \in PageReplies : RequestSend(r)
    \/ \E r \in PageReplies : RequestResend(r)
    \/ \E p1 \in PageReplies, p2 \in PageReplies : Caller2Ensure(p1, p2)
    \/ \E post \in CaptchaPostReplies : Caller2LoginStep("ok", "image", CAPTCHA_LEN, post)
    \/ Tick
    \/ Return

SpecTwoCallers == InitTwoCallers /\ [][NextTwoCallers]_vars

\* ------------------------------------------------------ _encode_credentials
\* Python strings are sequences of one-character strings.
SEPARATOR == <<"%", "%", "%">>
DIGITS == <<"0", "1", "2", "3", "4", "5", "6", "7", "8", "9">>
WHITESPACE == {" "}

Min(a, b) == IF a <= b THEN a ELSE b

\* s.find(sub): the first index (from 1) at which sub occurs in s, 0 if none.
Find(s, sub) ==
    LET at == {i \in 1..(Len(s) - Len(sub) + 1) : SubSeq(s, i, i + Len(sub) - 1) = sub}
    IN IF at = {} THEN 0 ELSE CHOOSE i \in at : \A j \in at : i <= j

\* sub in s
Contains(s, sub) == Find(s, sub) # 0

\* s.split(sep): the pieces between the occurrences of sep, taken from the
\* left without overlap.
RECURSIVE Split(_, _)
Split(s, sep) ==
    LET i == Find(s, sep)
    IN IF i = 0 THEN <<s>>
       ELSE <<SubSeq(s, 1, i - 1)>> \o Split(SubSeq(s, i + Len(sep), Len(s)), sep)

\* s.strip()
RECURSIVE Strip(_)
Strip(s) ==
    IF s = <<>> THEN s
    ELSE IF Head(s) \in WHITESPACE THEN Strip(Tail(s))
    ELSE IF s[Len(s)] \in WHITESPACE THEN Strip(SubSeq(s, 1, Len(s) - 1))
    ELSE s

IsDigit(c) == \E i \in 1..Len(DIGITS) : DIGITS[i] = c
DigitValue(c) == (CHOOSE i \in 1..Len(DIGITS) : DIGITS[i] = c) - 1

\* int(x): the value of a decimal numeral with blanks around it allowed;
\* ValueError (valid = FALSE) for anything else over the alphabets used here.
RECURSIVE Decimal(_)
Decimal(s) ==
    IF s = <<>> THEN 0
    ELSE 10 * Decimal(SubSeq(s, 1, Len(s) - 1)) + DigitValue(s[Len(s)])

ParseInt(x) ==
    LET t == Strip(x)
    IN IF t # <<>> /\ \A i \in 1..Len(t) : IsDigit(t[i])
       THEN [valid |-> TRUE, value |-> Decimal(t)]
       ELSE [valid |-> FALSE, value |-> 0]

\* The parse of sxh: "n1-n2-..." when it holds a '-', one digit per
\* character otherwise.  raised = an int() call raised ValueError.
ParseCounts(sxh) ==
    LET pieces == IF Contains(sxh, <<"-">>) THEN Split(sxh, <<"-">>)
                  ELSE [i \in 1..Len(sxh) |-> <<sxh[i]>>]
    IN [raised |-> \E i \in 1..Len(pieces) : ~ParseInt(pieces[i]).valid,
        counts |-> [i \in 1..Len(pieces) |-> ParseInt(pieces[i]).value]]

\* The inner loop `for _ in range(count)`: a character of scode is appended
\* while scode_idx < len(scode).  Yields scode_idx afterwards.
RECURSIVE InsertCode(_, _, _)
InsertCode(count, scode_idx, n) ==
    IF count <= 0 THEN scode_idx
    ELSE InsertCode(count - 1, IF scode_idx < n THEN scode_idx + 1 ELSE scode_idx, n)

\* What one pass of `for count in counts` appends: the characters of scode
\* it took, then the character of base_str it took.
PassOutput_BaseFirst(code, base) == base \o code

PassOutput(code, base) == code \o base

\* The loop over counts and the two while loops after it, with the indices
\* of the code (counted from 0 as there).
RECURSIVE Interleave(_, _, _, _, _)
Interleave(counts, scode, base_str, scode_idx, base_idx) ==
    IF counts = <<>>
    THEN SubSeq(base_str, base_idx + 1, Len(base_str)) \o
         SubSeq(scode, scode_idx + 1, Len(scode))
    ELSE LET si == InsertCode(Head(counts), scode_idx, Len(scode))
             bi == IF base_idx < Len(base_str) THEN base_idx + 1 ELSE base_idx
         IN PassOutput(SubSeq(scode, scode_idx + 1, si), SubSeq(base_str, base_idx + 1, bi))
            \o Interleave(Tail(counts), scode, base_str, si, bi)

\* _encode_credentials(username, password, scode, sxh): the pair returned,
\* with raised = the except clause returned (username, password) as given,
\* encoded = the interleaved string before it is split, and separated =
\* '%%%' in encoded.
EncodeCredentials(username, password, scode, sxh) ==
    LET base_str == username \o SEPARATOR \o password
        parsed == ParseCounts(sxh)
        encoded == Interleave(parsed.counts, scode, base_str, 0, 0)
        parts == Split(encoded, SEPARATOR)
    IN IF parsed.raised
       THEN [raised |-> TRUE, encoded |-> <<>>, separated |-> FALSE,
             encoded_username |-> username, encoded_password |-> password]
       ELSE IF Contains(encoded, SEPARATOR)
       THEN [raised |-> FALSE, encoded |-> encoded, separated |-> TRUE,
             encoded_username |-> parts[1],
             encoded_password |-> IF Len(parts) > 1 THEN parts[2] ELSE <<>>]
       ELSE [raised |-> FALSE, encoded |-> encoded, separated |-> FALSE,
             encoded_username |-> encoded, encoded_password |-> <<>>]

\* The program calls _encode_credentials with the arguments the initial
\* state drew.
CallEncodeCredentials ==
    /\ pc = "idle" /\ mgr = "AdminLoginManager" /\ enc_in # NoCall
    /\ pc' = "done" /\ op' = "_encode_credentials"
    /\ enc_out' = EncodeCredentials(enc_in.username, enc_in.password, enc_in.scode, enc_in.sxh)
    /\ UNCHANGED <<mgr, cred_set, caller2Vars, now, smVars, lmVars, admVars>>
    /\ UNCHANGED <<entry, probes, accepted_by, sent, nAuto, auto_from, auto_result, ret>>
    /\ UNCHANGED <<loaded, nSave, loginArgs, loginVars>>
    /\ UNCHANGED <<enc_in, ocr_in, ocr_out, steps, scode_reply, payload>>

\* Arguments of every shape.  Account names and passwords of up to MaxName
\* characters, codes of up to MaxScode characters that differ from those,
\* layouts of up to MaxSxh characters; and, for the layouts that reach past
\* a second separator, a blank account whose password is the separator
\* itself with layouts of up to MaxLongSxh digits.
Strings(alphabet, n) == UNION {[1..k -> alphabet] : k \in 0..n}
NameChars == {"u"}
PasswordChars == {"p"}
ScodeChars == {"a", "b"}
SxhChars == {"0", "1", "-"}
EncodeInputs ==
    {[called |-> TRUE, username |-> u, password |-> p, scode |-> c, sxh |-> x] :
        u \in Strings(NameChars, MaxName), p \in Strings(PasswordChars, MaxName),
        c \in Strings(ScodeChars, MaxScode), x \in Strings(SxhChars, MaxSxh)}
    \cup
    {[called |-> TRUE, username |-> <<>>, password |-> SEPARATOR, scode |-> c, sxh |-> x] :
        c \in Strings(ScodeChars, MaxScode), x \in Strings({"0", "1"}, MaxLongSxh)}

InitEncode ==
    /\ mgr = "AdminLoginManager"
    /\ now = 1
    /\ is_logged_in = FALSE /\ last_activity = 0
    /\ login_credentials = NoCred /\ session_file = NoFile
    /\ lm_logged_in = FALSE /\ cookies = NoCookies
    /\ adm_cookie = FALSE /\ adm_creds = NoCred /\ adm_file = AdmNoFile
    /\ cred_set = NoCred
    /\ pc2 = "idle" /\ retry_count2 = 0
    /\ loaded = NotLoaded /\ nSave = 0
    /\ pc = "idle" /\ op = "none" /\ entry = NoEntry /\ probes = <<>>
    /\ accepted_by = "none" /\ sent = <<>> /\ nAuto = 0 /\ auto_from = "none"
    /\ auto_result = NoResult /\ ret = NoRet
    /\ max_retries = 0 /\ auto_captcha = FALSE /\ captcha = FALSE
    /\ retry_count = 0 /\ outcomes = <<>> /\ nMainGet = 0 /\ nFetch = 0
    /\ nSubmit = 0 /\ submits = <<>> /\ login_result = NoResult
    /\ enc_in \in EncodeInputs /\ enc_out = NoCall
    /\ ocr_in = NoCall /\ ocr_out = NoCall
    /\ steps = <<>> /\ scode_reply = NoCall /\ payload = NoCall

NextEncode ==
    \/ CallEncodeCredentials
    \/ Return

SpecEncode == InitEncode /\ [][NextEncode]_vars

\* ------------------------------------- AdminLoginManager.login by itself
\* Replies to GET /Logon.do?method=logon&flag=sess: the request raised (or
\* raise_for_status did), or a body of up to MaxText characters.
TextChars == {"0", "1", "#", ",", " "}
ScodeRaised == [raised |-> TRUE, text |-> <<>>]
SessionCodeReplies ==
    {ScodeRaised} \cup {[raised |-> FALSE, text |-> t] : t \in Strings(TextChars, MaxText)}

NoSessionCode == [none |-> TRUE, scode |-> <<>>, sxh |-> <<>>]

\* _get_session_code(): (scode, sxh), or (None, None) with none = TRUE.
GetSessionCode(reply) ==
    IF reply.raised THEN NoSessionCode
    ELSE LET text == Strip(reply.text)
             separator == IF Contains(text, <<"#">>) THEN <<"#">>
                          ELSE IF Contains(text, <<",">>) THEN <<",">>
                          ELSE <<>>
             parts == Split(text, separator)
         IN IF separator = <<>> THEN NoSessionCode
            ELSE [none |-> FALSE, scode |-> Strip(parts[1]), sxh |-> Strip(parts[2])]

\* The test of login() on the pair: `if not scode or not sxh` fails.
HasSessionCode_CodeOnly(code) == ~code.none /\ code.scode # <<>>

HasSessionCode(code) == ~code.none /\ code.scode # <<>> /\ code.sxh # <<>>

\* The username and password of the accounts the program logs in with.
AccountText(c) ==
    IF c = "u1" THEN [username |-> <<"u">>, password |-> <<"p">>]
    ELSE [username |-> <<>>, password |-> <<"p">>]

\* The steps of login() in the order the code takes them, up to the one the
\* call ended in.
CaptchaSteps(auto, fetch) ==
    IF ~auto THEN <<>>
    ELSE IF fetch = "image" THEN <<"captcha_fetch", "captcha_solve">>
    ELSE <<"captcha_fetch">>

AdmLoginSteps(lg, auto, fetch) ==
    CaptchaSteps(auto, fetch) \o
    (IF lg.coded THEN <<"challenge">> ELSE <<>>) \o
    (IF lg.coded /\ lg.outcome # "scode_failed" THEN <<"encode", "submit">> ELSE <<>>)

\* AdminLoginManager.login(username, password, captcha, auto_captcha) called
\* by the program, with the replies of the portal and of the OCR engine to
\* the requests the call makes.
AdminLogin(c, cap, auto, jsid) ==
    /\ pc = "idle" /\ mgr = "AdminLoginManager"
    /\ pc' = "done" /\ op' = "admin_login"
    /\ max_retries' = 1 /\ captcha' = cap /\ auto_captcha' = auto
    /\ \E fetch \in IF auto THEN FetchReplies ELSE {"image"} :
       \E ocrLen \in IF auto /\ fetch = "image" THEN 0..MaxOcrLen ELSE {0} :
       \E reply \in IF (auto /\ fetch = "image" /\ solve_captcha(ocrLen).success) \/ (~auto /\ cap)
                    THEN SessionCodeReplies ELSE {ScodeRaised} :
       \E code \in {GetSessionCode(reply)} :
       \E post \in IF HasSessionCode(code) THEN AdmPostReplies ELSE {AdmPostRedirect} :
       \E lg \in {AdmLogin(cap, auto, adm_cookie, jsid, fetch, ocrLen,
                           IF HasSessionCode(code) THEN "code" ELSE "failed", post)} :
       \E enc \in {IF lg.coded /\ lg.outcome # "scode_failed"
                   THEN EncodeCredentials(AccountText(c).username, AccountText(c).password,
                                          code.scode, code.sxh)
                   ELSE NoCall} :
          /\ steps' = AdmLoginSteps(lg, auto, fetch)
          /\ scode_reply' = IF lg.coded THEN [called |-> TRUE] @@ reply ELSE NoCall
          /\ enc_in' = IF enc # NoCall
                       THEN [called |-> TRUE, username |-> AccountText(c).username,
                             password |-> AccountText(c).password,
                             scode |-> code.scode, sxh |-> code.sxh]
                       ELSE NoCall
          /\ enc_out' = enc
          /\ payload' = IF lg.submitted
                        THEN [called |-> TRUE, userAccount |-> enc.encoded_username,
                              userPassword |-> enc.encoded_password]
                        ELSE NoCall
          /\ adm_cookie' = lg.cookie
          /\ adm_creds' = IF lg.result.success THEN c ELSE adm_creds
          /\ adm_file' = IF lg.result.success THEN AdmSavedFile(lg.cookie, c) ELSE adm_file
          /\ nSave' = IF lg.result.success THEN 1 ELSE 0
          /\ ret' = IF lg.raises THEN RaiseRet(lg.result.message)
                    ELSE [kind |-> "login_result", ok |-> lg.result.success,
                          reason |-> lg.result.message, page |-> NoPage]
          /\ outcomes' = <<lg.outcome>>
          /\ nMainGet' = 0
          /\ nFetch' = IF lg.fetched THEN 1 ELSE 0
          /\ nSubmit' = IF lg.submitted THEN 1 ELSE 0
          /\ submits' = IF lg.submitted THEN <<IF auto THEN 1 ELSE 0>> ELSE <<>>
          /\ retry_count' = 0
          /\ login_result' = lg.result
    /\ UNCHANGED <<mgr, cred_set, caller2Vars, now, smVars, lmVars>>
    /\ UNCHANGED <<entry, probes, accepted_by, sent, nAuto, auto_from, auto_result, loaded>>
    /\ UNCHANGED <<ocr_in, ocr_out>>

InitAdminLogin == Init /\ mgr = "AdminLoginManager"

NextAdminLogin ==
    \E c \in AdminCredentials, cap \in BOOLEAN, auto \in BOOLEAN, jsid \in BOOLEAN :
        AdminLogin(c, cap, auto, jsid)

SpecAdminLogin == InitAdminLogin /\ [][NextAdminLogin]_vars

\* --------------------------------------- CaptchaSolver.solve_captcha by itself
\* What ddddocr.classification gives for an image: it raises, or it returns
\* a text of up to MaxRaw characters, letters, digits and others.
OcrChars == {"a", "1", "-"}
IsAlnum(c) == c \in {"a", "1"}

None == [none |-> TRUE, text |-> <<>>]

\* recognize_with_ddddocr(image_data): the cleaned text, or None.
RecognizeWithDdddocr(in) ==
    IF in.raised \/ in.text = <<>> THEN None
    ELSE IF SelectSeq(in.text, IsAlnum) = <<>> THEN None
    ELSE [none |-> FALSE, text |-> SelectSeq(in.text, IsAlnum)]

MSG_NO_ENGINE == "no OCR engine"
MSG_RECOGNISED == "recognised"
MSG_RECOGNISED_3 == "recognised (only 3 characters)"
MSG_SOLVE_ERROR == "recognition raised"

\* The two tests of solve_captcha on the length of the cleaned text.
FullLength(n) == n >= CAPTCHA_LEN

ShortLength_Never(n) == FALSE

ShortLength(n) == n = 3

\* The dictionary solve_captcha(image_data) returns; absent = the call ran
\* off the end of the function and returned None.
Absent == [absent |-> TRUE, success |-> FALSE, result |-> <<>>, engine |-> "", message |-> ""]

SolveCaptcha(in) ==
    LET r == RecognizeWithDdddocr(in)
    IN IF ~in.engine
       THEN [absent |-> FALSE, success |-> FALSE, result |-> <<>>, engine |-> "",
             message |-> MSG_NO_ENGINE]
       ELSE IF ~in.image
       THEN [absent |-> FALSE, success |-> FALSE, result |-> <<>>, engine |-> "",
             message |-> MSG_SOLVE_ERROR]
       ELSE IF r.none THEN Absent
       ELSE IF FullLength(Len(r.text))
       THEN [absent |-> FALSE, success |-> TRUE, result |-> SubSeq(r.text, 1, CAPTCHA_LEN),
             engine |-> "ddddocr", message |-> MSG_RECOGNISED]
       ELSE IF ShortLength(Len(r.text))
       THEN [absent |-> FALSE, success |-> TRUE, result |-> r.text,
             engine |-> "ddddocr", message |-> MSG_RECOGNISED_3]
       ELSE Absent

\* The program calls solve_captcha with the image and the engine the initial
\* state drew.
CallSolveCaptcha ==
    /\ pc = "idle" /\ ocr_in # NoCall
    /\ pc' = "done" /\ op' = "solve_captcha"
    /\ ocr_out' = SolveCaptcha(ocr_in)
    /\ UNCHANGED <<mgr, cred_set, caller2Vars, now, smVars, lmVars, admVars>>
    /\ UNCHANGED <<entry, probes, accepted_by, sent, nAuto, auto_from, auto_result, ret>>
    /\ UNCHANGED <<loaded, nSave, loginArgs, loginVars>>
    /\ UNCHANGED <<enc_in, enc_out, ocr_in, steps, scode_reply, payload>>

\* engine = ddddocr was loaded by the constructor; image = image_data is a
\* byte string (None has no len()); raised, text = the engine's answer.
SolveInputs ==
    {[called |-> TRUE, engine |-> e, image |-> i, raised |-> r, text |-> t] :
        e \in BOOLEAN, i \in BOOLEAN, r \in BOOLEAN, t \in Strings(OcrChars, MaxRaw)}

InitCaptcha ==
    /\ mgr = "LoginManager"
    /\ now = 1
    /\ is_logged_in = FALSE /\ last_activity = 0
    /\ login_credentials = NoCred /\ session_file = NoFile
    /\ lm_logged_in = FALSE /\ cookies = NoCookies
    /\ adm_cookie = FALSE /\ adm_creds = NoCred /\ adm_file = AdmNoFile
    /\ cred_set = NoCred
    /\ pc2 = "idle" /\ retry_count2 = 0
    /\ loaded = NotLoaded /\ nSave = 0
    /\ pc = "idle" /\ op = "none" /\ entry = NoEntry /\ probes = <<>>
    /\ accepted_by = "none" /\ sent = <<>> /\ nAuto = 0 /\ auto_from = "none"
    /\ auto_result = NoResult /\ ret = NoRet
    /\ max_retries = 0 /\ auto_captcha = FALSE /\ captcha = FALSE
    /\ retry_count = 0 /\ outcomes = <<>> /\ nMainGet = 0 /\ nFetch = 0
    /\ nSubmit = 0 /\ submits = <<>> /\ login_result = NoResult
    /\ enc_in = NoCall /\ enc_out = NoCall
    /\ ocr_in \in SolveInputs /\ ocr_out = NoCall
    /\ steps = <<>> /\ scode_reply = NoCall /\ payload = NoCall

NextCaptcha ==
    \/ CallSolveCaptcha
    \/ Return

SpecCaptcha == InitCaptcha /\ [][NextCaptcha]_vars

\* ------------------------------------------------------------------ claims
\* States in which ensure_logged_in of SessionManager has just returned, to
\* the program or to request(), and the value it returned.
EnsureReturned ==
    /\ mgr = "SessionManager"
    /\ \/ pc = "done" /\ op = "ensure_logged_in"
       \/ pc = "send"
       \/ pc = "done" /\ op = "request" /\ sent = <<>>

EnsureValue == IF pc = "send" THEN TRUE ELSE ret.kind = "bool" /\ ret.ok

\* States in which request() has returned or raised.
RequestReturned == mgr = "SessionManager" /\ pc = "done" /\ op = "request"

\* The first reply to the request was detected as a login redirect.
FirstReplyIsRedirect == Len(sent) >= 1 /\ ~sent[1].raised /\ IsLoginRedirect(sent[1])

\* A bound on the steps a call has left; every step of a call lowers it.
CallMeasure ==
    LET passes == IF retry_count < max_retries THEN max_retries - retry_count ELSE 0
    IN IF pc = "done" THEN 0
       ELSE IF pc = "resend" THEN 1
       ELSE IF pc = "auto_login" /\ auto_from = "request" THEN 2
       ELSE IF pc = "login" /\ auto_from = "request" THEN 3 + passes
       ELSE IF pc = "send" THEN 4 + AUTO_LOGIN_RETRIES
       ELSE IF pc = "auto_login" THEN 5 + AUTO_LOGIN_RETRIES
       ELSE IF pc = "login" THEN 6 + AUTO_LOGIN_RETRIES + passes
       ELSE 7 + AUTO_LOGIN_RETRIES + MaxRetriesArg + 1

C1_Counts ==
    mgr = "SessionManager" /\ op = "request" =>
        /\ Len(sent) <= 2
        /\ nAuto <= 1
        /\ RequestReturned /\ FirstReplyIsRedirect =>
              /\ nAuto = 1
              /\ Len(sent) = (IF auto_result.success THEN 2 ELSE 1)
              /\ ~auto_result.success => ret.kind = "exception"

C1_Progress == op' = "request" /\ pc # "idle" => CallMeasure' < CallMeasure

\* C1 (as amended): in a request() call whose first reply is detected as a
\* login redirect, _auto_login is called exactly once for it, and the request
\* is sent again exactly once when that re-login succeeded and not at all
\* when it failed (request() then raises); in every execution the request is
\* sent at most twice, and every step of the call lowers a bounded measure,
\* so the call ends.
C1_RequestRetriesOnce == []C1_Counts /\ [][C1_Progress]_vars

C1_Witness ==
    /\ RequestReturned /\ FirstReplyIsRedirect
    /\ nAuto = 1 /\ Len(sent) = 2 /\ auto_result.success

\* C1 as stated: after a detected login redirect the request is re-issued
\* exactly once, in every such call.
C1_Original ==
    RequestReturned /\ FirstReplyIsRedirect => nAuto = 1 /\ Len(sent) = 2

\* C2 as stated: when the reply to the re-issued request is a login redirect
\* again, request() raises (session expired) and does not return that reply.
C2_Original ==
    RequestReturned /\ Len(sent) = 2 /\ ~sent[2].raised /\ IsLoginRedirect(sent[2])
        => ret.kind = "exception"

\* The in-memory session at the entry of the call was marked logged in and
\* had not passed the timeout test of _is_session_valid.
EntryFresh ==
    entry.logged_in /\ entry.last_activity # 0 /\ ~TimedOut(now, entry.last_activity)

NoLoginRequests == nMainGet = 0 /\ nFetch = 0 /\ nSubmit = 0

\* C3 (as amended): when the in-memory session is marked logged in and is
\* within the timeout, ensure_logged_in first issues one validity probe; when
\* that probe is answered 200 and not by a login page it returns True and
\* issues no other request.
C3_FastPathProbesOnce ==
    EnsureReturned /\ EntryFresh =>
        /\ Len(probes) >= 1
        /\ probes[1].after = "memory"
        /\ probes[1].passed =>
              /\ EnsureValue
              /\ accepted_by = "memory"
              /\ Len(probes) = 1
              /\ NoLoginRequests

C3_Witness ==
    /\ EnsureReturned /\ EntryFresh /\ op = "ensure_logged_in"
    /\ Len(probes) = 1 /\ probes[1].passed /\ ret = BoolRet(TRUE)

\* C3 as stated: with the in-memory session marked logged in and within the
\* timeout, ensure_logged_in returns True and issues no network request.
C3_Original ==
    EnsureReturned /\ EntryFresh => EnsureValue /\ probes = <<>> /\ NoLoginRequests

\* No validity probe of the call passed: neither the in-memory session nor a
\* stored one was found usable.
NoProbePassed == \A i \in 1..Len(probes) : ~probes[i].passed

\* C4: when the session is not usable, no stored session validates and no
\* credentials are set, ensure_logged_in returns False (request raises,
\* without sending the request) and no login request is issued: no GET of
\* the main page, no CAPTCHA fetch, no submission.  SessionManager and
\* AdminLoginManager.
C4_NoCredentialsNoLogin ==
    /\ EnsureReturned /\ login_credentials = NoCred /\ NoProbePassed =>
          /\ ~EnsureValue
          /\ NoLoginRequests
          /\ op = "request" => ret = RaiseRet(EXC_NO_SESSION) /\ sent = <<>>
    /\ mgr = "AdminLoginManager" /\ pc = "done" /\ op = "ensure_logged_in"
          /\ adm_creds = NoCred /\ accepted_by # "store" =>
          /\ ret = BoolRet(FALSE)
          /\ NoLoginRequests

C4_Witness ==
    /\ EnsureReturned /\ op = "request" /\ login_credentials = NoCred
    /\ ret = RaiseRet(EXC_NO_SESSION) /\ sent = <<>>

\* C5 as stated: a session adopted from the store is accepted by
\* ensure_logged_in (SessionManager, AdminLoginManager) only after exactly
\* one validity probe, issued after the adoption, that did not look like a
\* login redirect.
C5_Original ==
    pc \in {"done", "send"} /\ accepted_by = "store" =>
        LET after == {i \in 1..Len(probes) : probes[i].after = "store"}
        IN /\ Cardinality(after) = 1
           /\ \A i \in after : probes[i].passed /\ ~probes[i].login_page

\* C6 as stated: when the automatic re-login fails, the message login()
\* returned reaches the caller of ensure_logged_in() / request().
C6_Original ==
    /\ mgr = "SessionManager" /\ pc = "done"
    /\ auto_result # NoResult /\ ~auto_result.success
    => ret.reason = auto_result.message

\* C7 as stated: the in-memory session is accepted as usable only while
\* _is_logged_in and now - _last_activity < session_timeout, strictly.
C7_Original ==
    EnsureReturned /\ accepted_by = "memory" =>
        entry.logged_in /\ now - entry.last_activity < session_timeout

\* States in which LoginManager.login has returned its dictionary.
LoginReturned == mgr # "AdminLoginManager" /\ login_result # NoResult

AllOutcomes(what) == \A i \in 1..Len(outcomes) : outcomes[i] = what

\* C8: login with automatic CAPTCHA and max_retries = 3, every pass reaching
\* the submission and every submission answered with a CAPTCHA mismatch:
\* the call ends with the portal's CAPTCHA failure after exactly 3 image
\* fetches and 3 submissions, the i-th submission carrying the text read
\* from the i-th image.
C8_ThreeCaptchaRejections ==
    /\ LoginReturned /\ max_retries = 3 /\ auto_captcha /\ ~captcha
    /\ AllOutcomes("captcha_error")
    => /\ nFetch = 3
       /\ nSubmit = 3
       /\ submits = <<1, 2, 3>>
       /\ login_result = [success |-> FALSE, message |-> ERR_CAPTCHA]

C8_Witness ==
    /\ LoginReturned /\ max_retries = 3 /\ auto_captcha /\ ~captcha
    /\ outcomes = <<"captcha_error", "captcha_error", "captcha_error">>

\* C9: a failure reply reporting a credential mismatch ends login at once:
\* it is the last thing the call does, the call returns failure with the
\* portal's message, and the credentials went out once for that reply (one
\* submission in all when no earlier pass had submitted).
C9_CredentialErrorNotRetried ==
    mgr # "AdminLoginManager" =>
        \A i \in 1..Len(outcomes) : outcomes[i] = "credential_error" =>
            /\ i = Len(outcomes)
            /\ LoginReturned
            /\ login_result = [success |-> FALSE, message |-> ERR_CREDENTIAL]
            /\ nSubmit = Cardinality({j \in 1..i :
                   outcomes[j] \in {"credential_error", "captcha_error", "post_raised"}})

C9_Witness ==
    /\ LoginReturned /\ max_retries = 3 /\ outcomes = <<"credential_error">>
    /\ nSubmit = 1 /\ retry_count = 0

\* C10: OCR unaccepted in every pass of login(max_retries = N), N >= 1: a
\* new image is fetched in each pass (N in all), nothing is submitted, and
\* the call returns the failure "captcha recognition failed".
C10_OcrNeverAccepted ==
    mgr # "AdminLoginManager" /\ outcomes # <<>> /\ AllOutcomes("ocr_failed") =>
        /\ nFetch = Len(outcomes)
        /\ nSubmit = 0
        /\ LoginReturned =>
              /\ max_retries >= 1
              /\ nFetch = max_retries
              /\ login_result = [success |-> FALSE, message |-> MSG_OCR_FAILED]

C10_Witness ==
    /\ LoginReturned /\ max_retries = 3 /\ nFetch = 3 /\ nSubmit = 0
    /\ outcomes = <<"ocr_failed", "ocr_failed", "ocr_failed">>

\* C11 as stated: the authentication of two concurrent callers of one
\* SessionManager is serialized: at no point are two login attempts in
\* progress at the same time on the shared transport and cookie jar.
C11_Original == ~(mgr = "SessionManager" /\ pc = "login" /\ pc2 = "login")

\* C12 as stated: the stored username and password change only through an
\* explicit set call (set_credentials / set_login_credentials): after
\* load_session, ensure_logged_in, logout and clear_session the manager still
\* holds the credentials the caller last set.
C12_Original ==
    /\ mgr = "SessionManager" => login_credentials = cred_set
    /\ mgr = "AdminLoginManager" => adm_creds = cred_set

\* C13 as stated: after SessionManager.clear_session() the session is gone in
\* memory and on disk: _is_logged_in is false, _last_activity is unset, the
\* cookie jar is empty and the session file does not exist.
C13_Original ==
    mgr = "SessionManager" /\ pc = "done" /\ op = "clear_session" =>
        /\ ~is_logged_in
        /\ last_activity = 0
        /\ cookies = NoCookies
        /\ ~session_file.exists

\* C14 as stated: when logout() of LoginManager or AdminLoginManager has
\* returned, whether or not the logout request succeeded, the logged-in
\* indicator is false and the jar holds no session cookie.
C14_Original ==
    pc = "done" /\ op = "logout" =>
        /\ mgr = "LoginManager" => ~lm_logged_in /\ cookies = NoCookies
        /\ mgr = "AdminLoginManager" => ~AdmIsLoggedIn(adm_cookie)

\* The value the manager's loader returns when the session file is missing.
MissingOutcome ==
    IF mgr = "SessionManager" THEN LoadSession(NoFile, now, cookies).ok
    ELSE IF mgr = "LoginManager" THEN LmLoad("missing", PageOk, lm_logged_in, cookies).ok
    ELSE AdmLoadSession(AdmNoFile, adm_cookie, adm_creds).ok

\* C15 as stated: loading a stored session never raises, and a file whose
\* content does not parse yields an outcome that the caller can tell apart
\* from the outcome for a missing file (_load_session of SessionManager,
\* load_session of LoginManager and AdminLoginManager).
C15_Original ==
    loaded.case = "corrupt" =>
        /\ ret.kind # "exception"
        /\ loaded.ok # MissingOutcome

\* _load_session has returned True for the stored record.
RecordLoaded == pc = "done" /\ op = "_load_session" /\ loaded.case = "loaded"

HasForm(form) == \E i \in 1..Len(session_file.cookies) : session_file.cookies[i].form = form

\* C16: _load_session on a record that is not expired, its cookies stored
\* flat (name -> string), structured (name -> {value, domain, path}) or as a
\* mix of both: afterwards the jar holds, for every entry of the record, a
\* cookie of that name with the recorded value; no entry is dropped.
C16_LoadKeepsEveryCookie ==
    RecordLoaded =>
        \A i \in 1..Len(session_file.cookies) :
            \E c \in cookies : /\ c.name = session_file.cookies[i].name
                                /\ c.value = session_file.cookies[i].value

C16_Witness ==
    /\ RecordLoaded /\ Len(session_file.cookies) = 2
    /\ HasForm("flat") /\ HasForm("structured")
    /\ \E c \in cookies : c.value = "s0"

\* C17 as stated: a stored session whose recorded base_url differs from the
\* configured one is rejected or flagged by the loader: the load does not
\* report success for it, and ensure_logged_in does not return True on the
\* strength of that record.
C17_Original ==
    ~loaded.base_match => ~loaded.ok /\ accepted_by # "store"

\* A {success, message} dictionary as login() builds it.
Structured(r) == r.success \in BOOLEAN /\ r.message # "" /\ r # NoResult

\* login() is running: it can take another pass or leave the loop, and it
\* has made no more passes than max_retries.
C18_Running ==
    pc = "login" =>
        /\ retry_count <= max_retries
        /\ ENABLED (\/ LoginExhausted
                    \/ \E main \in MainReplies, fetch \in FetchReplies,
                          ocrLen \in 0..MaxOcrLen, post \in PostReplies :
                          LoginStep(main, fetch, ocrLen, post))

\* login() handed its result over: to the program, or to _auto_login.
C18_Returned ==
    /\ mgr = "LoginManager" /\ pc = "done" /\ op = "login" =>
          /\ ret.kind = "login_result"
          /\ Structured(login_result)
          /\ ret.ok = login_result.success /\ ret.reason = login_result.message
    /\ pc = "auto_login" => Structured(login_result)

\* A step inside login() either ends the call or starts the next pass.
C18_Progress == pc = "login" /\ pc' = "login" => retry_count' = retry_count + 1

\* C18: LoginManager.login always ends and returns a {success, message}
\* dictionary, never an exception, whatever the transport, the portal, the
\* CAPTCHA fetch and the OCR do in each pass, and for every max_retries, 0
\* included.
C18_LoginAlwaysReturns == [](C18_Running /\ C18_Returned) /\ [][C18_Progress]_vars

C18_Witness ==
    /\ mgr = "LoginManager" /\ pc = "done" /\ op = "login" /\ max_retries = 0
    /\ ret.kind = "login_result" /\ ret.reason = MSG_EXHAUSTED

\* A validity probe of the call ended in a transport failure.
ProbeRaised == \E i \in 1..Len(probes) : probes[i].raised

\* C19 as stated: a transport failure inside SessionManager.request(), in
\* the validity probe of its ensure_logged_in or in the data request, is
\* propagated to the caller as a failure; it is never turned into another
\* action such as a re-login.
C19_Original ==
    mgr = "SessionManager" /\ op = "request" =>
        /\ ProbeRaised =>
              /\ pc \notin {"login", "auto_login", "send", "resend"}
              /\ NoLoginRequests
              /\ pc = "done" => ret.kind = "exception" /\ ret.reason = MSG_TRANSPORT
        /\ pc = "done" /\ sent # <<>> /\ sent[Len(sent)].raised =>
              ret.kind = "exception" /\ ret.reason = MSG_TRANSPORT

\* C20 as stated: whenever a login call returns success, the identity has
\* been recorded on the manager and a save of the session to the store has
\* been attempted before the call returns (LoginManager.login, the login of
\* AdminLoginManager, the login of SessionManager._auto_login).
C20_Original ==
    /\ mgr = "LoginManager" /\ pc = "done" /\ op = "login" /\ ret.ok => nSave >= 1
    /\ mgr = "AdminLoginManager" /\ pc = "done" /\ accepted_by = "login" /\ ret.ok =>
          nSave >= 1 /\ adm_creds # NoCred
    /\ mgr = "SessionManager" /\ auto_result.success => nSave >= 1

\* A direct call of _encode_credentials has returned.
EncodeReturned == pc = "done" /\ op = "_encode_credentials"

\* The credentials hold no '%': the only separator is the one the base
\* string is built with.
PlainCredentials ==
    /\ ~Contains(enc_in.username, <<"%">>)
    /\ ~Contains(enc_in.password, <<"%">>)

\* C21: for every username and password (here: without '%'), scode and
\* layout the parser accepts, the pair _encode_credentials returns loses and
\* duplicates no character: the lengths of its two parts plus the three of
\* the separator add up to len(username) + 3 + len(password) + len(scode).
C21_Original ==
    EncodeReturned /\ ~enc_out.raised /\ PlainCredentials =>
        Len(enc_out.encoded_username) + Len(SEPARATOR) + Len(enc_out.encoded_password)
            = Len(enc_in.username) + Len(SEPARATOR) + Len(enc_in.password) + Len(enc_in.scode)

RECURSIVE SumOf(_)
SumOf(counts) == IF counts = <<>> THEN 0 ELSE Head(counts) + SumOf(Tail(counts))

IsCodeChar(c) == c \in ScodeChars

\* What the caller posts: encoded_username + separator + encoded_password.
EncodedOutput == enc_out.encoded_username \o SEPARATOR \o enc_out.encoded_password

\* C22: when the counts of the layout add up to at least len(scode), the
\* characters of scode are in the output once each and in their order:
\* with the characters of the base string deleted, the output is scode.
C22_Original ==
    /\ EncodeReturned /\ ~enc_out.raised
    /\ SumOf(ParseCounts(enc_in.sxh).counts) >= Len(enc_in.scode)
    => SelectSeq(EncodedOutput, IsCodeChar) = enc_in.scode

\* AdminLoginManager.login, called by the program, has returned.
AdminLoginReturned == pc = "done" /\ op = "admin_login"

\* The encoding login() made lost the separator: the whole interleaved
\* string came back as the username, with an empty password.
SeparatorLost == enc_out # NoCall /\ ~enc_out.raised /\ ~enc_out.separated

\* The messages login() gives for a submission that went its normal way.
OrdinaryMessages == {MSG_OK, MSG_ADMIN_FAILED, MSG_TRANSPORT}

\* C23: when the separator does not survive the interleaving, login() does
\* not submit the pair as a normal payload: nothing is posted, or the result
\* it returns tells the caller of the degraded encoding.
C23_Original ==
    AdminLoginReturned /\ SeparatorLost =>
        payload = NoCall \/ ret.reason \notin OrdinaryMessages

\* A direct call of solve_captcha with an engine and an image has returned;
\* Cleaned is the alphanumeric-cleaned text the engine's answer left, L its
\* length (0 when the recogniser gave None).
SolveReturned == pc = "done" /\ op = "solve_captcha" /\ ocr_in.engine /\ ocr_in.image
Cleaned == RecognizeWithDdddocr(ocr_in).text
Accepted == ~ocr_out.absent /\ ocr_out.success

\* C24: solve_captcha accepts cleaned text of 4 or more characters (its
\* first 4; text of exactly 4 as it is), accepts text of 3 characters with
\* a result marked as a 3-character one, which a full result is not, and
\* does not accept text of 2 characters.
C24_AcceptanceRule ==
    SolveReturned =>
        /\ Len(Cleaned) >= 4 =>
              /\ Accepted /\ ocr_out.result = SubSeq(Cleaned, 1, 4)
              /\ ocr_out.message # MSG_RECOGNISED_3
              /\ Len(Cleaned) = 4 => ocr_out.result = Cleaned
        /\ Len(Cleaned) = 3 =>
              Accepted /\ ocr_out.result = Cleaned /\ ocr_out.message = MSG_RECOGNISED_3
        /\ Len(Cleaned) = 2 => ~Accepted

C24_Witness ==
    /\ SolveReturned /\ Len(Cleaned) = 3 /\ Len(ocr_in.text) = 5
    /\ Accepted /\ ocr_out.message = MSG_RECOGNISED_3

\* Passes of login() that failed for a reason other than a CAPTCHA mismatch,
\* and passes in which a CAPTCHA was fetched or credentials were submitted.
NonCaptchaFailures ==
    {"credential_error", "unknown", "post_raised", "main_raised", "main_failed"}
RequestingPasses ==
    {"fetch_failed", "ocr_failed", "captcha_error", "credential_error", "unknown",
     "post_raised", "success"}

\* C25: in LoginManager.login a failure that is not a CAPTCHA mismatch ends
\* the call: no pass that fetches a CAPTCHA or submits credentials follows it.
C25_Original ==
    mgr \in {"LoginManager", "SessionManager"} =>
        \A i \in 1..Len(outcomes), j \in 1..Len(outcomes) :
            i < j /\ outcomes[i] \in NonCaptchaFailures => outcomes[j] \notin RequestingPasses

\* Step a of the call comes before step b of the call.
Before(a, b) ==
    \A i \in 1..Len(steps), j \in 1..Len(steps) :
        steps[i] = a /\ steps[j] = b => i < j

\* C26: in a login() that reaches the submission the steps come in the
\* order challenge fetch, encoding, CAPTCHA fetch and solve, submission: the
\* CAPTCHA image is not fetched before the challenge has been.
C26_Original ==
    AdminLoginReturned /\ nSubmit = 1 =>
        /\ Before("challenge", "encode")
        /\ Before("challenge", "captcha_fetch")
        /\ Before("encode", "captcha_fetch")
        /\ Before("captcha_solve", "submit")

\* The POST of login() was answered and _check_login_success classified the
\* response.
Classified == AdminLoginReturned /\ outcomes \in {<<"success">>, <<"rejected">>}

\* C27: _check_login_success puts the session cookie before the body: a
\* response that leaves JSESSIONID in the jar is classified as a success,
\* whatever failure marker its body holds.
C27_Original == Classified /\ adm_cookie => login_result.success

\* login() asked for the session code and the answer gave no pair to encode
\* with: the request failed, the body held neither '#' nor ',', or the part
\* before or after the separator was blank.
ChallengeFailed ==
    /\ AdminLoginReturned /\ scode_reply # NoCall
    /\ \/ GetSessionCode(scode_reply).none
       \/ GetSessionCode(scode_reply).scode = <<>>
       \/ GetSessionCode(scode_reply).sxh = <<>>

NumericLayout(sxh) ==
    /\ \A i \in 1..Len(sxh) : IsDigit(sxh[i]) \/ sxh[i] = "-"
    /\ Contains(sxh, <<"-">>) =>
          /\ sxh[1] # "-" /\ sxh[Len(sxh)] # "-"
          /\ ~Contains(sxh, <<"-", "-">>)

\* The interleave as the specification words it: for each count k the next
\* min(k, remaining) characters of the code, then one character of the base
\* string if one remains; after the layout the rest of the base string, then
\* the rest of the code.
RECURSIVE RefInterleave(_, _, _)
RefInterleave(counts, code, base) ==
    IF counts = <<>> THEN base \o code
    ELSE LET k == Min(Head(counts), Len(code))
         IN SubSeq(code, 1, k) \o
            (IF base = <<>> THEN <<>> ELSE <<Head(base)>>) \o
            RefInterleave(Tail(counts), SubSeq(code, k + 1, Len(code)),
                          IF base = <<>> THEN <<>> ELSE Tail(base))

EncBase == enc_in.username \o SEPARATOR \o enc_in.password
EncCounts == ParseCounts(enc_in.sxh).counts

\* C29: for every username, password, scode and numeric layout the string
\* _encode_credentials builds before splitting is the reference interleave;
\* counts beyond the code and passes beyond the base string are clamped and
\* skipped, never an error.
C29_EncodedIsReferenceInterleave ==
    EncodeReturned /\ NumericLayout(enc_in.sxh) =>
        /\ ~enc_out.raised
        /\ enc_out.encoded = RefInterleave(EncCounts, enc_in.scode, EncBase)

\* A layout with more counts than the base string has characters and a
\* total beyond the length of the code.
C29_Witness ==
    /\ EncodeReturned /\ NumericLayout(enc_in.sxh)
    /\ enc_in.scode # <<>>
    /\ Len(EncCounts) > Len(EncBase)
    /\ SumOf(EncCounts) > Len(enc_in.scode)
    /\ Len(enc_out.encoded) = Len(EncBase) + Len(enc_in.scode)

\* C30: for an input it does not accept (cleaned text of 0, 1 or 2
\* characters, or no answer of the engine at all) solve_captcha returns a
\* dictionary with success = False, never None.
C30_Original ==
    pc = "done" /\ op = "solve_captcha" /\ ~Accepted =>
        ~ocr_out.absent /\ ~ocr_out.success

\* login(auto_captcha=True) got no accepted text from the OCR: the image
\* was not fetched, or solve_captcha of the solver did not accept what the
\* engine read.
OcrNotAccepted ==
    /\ AdminLoginReturned /\ auto_captcha
    /\ outcomes \in {<<"fetch_failed">>, <<"ocr_absent">>, <<"ocr_failed">>}

\* C31: when the OCR gives no accepted text (too short or empty text among
\* the cases), login(auto_captcha=True) returns the structured failure of a
\* failed recognition, has submitted nothing, and does not raise.
C31_Original ==
    OcrNotAccepted =>
        /\ ret.kind = "login_result" /\ ~ret.ok /\ ret.reason = MSG_OCR_FAILED
        /\ nSubmit = 0 /\ payload = NoCall

\* _auto_login has logged in within this call and its save_session failed:
\* the save was attempted and there is still no session file.
SaveFailed ==
    /\ mgr = "SessionManager" /\ pc # "idle"
    /\ nSave >= 1 /\ auto_result.success /\ ~session_file.exists

\* ensure_logged_in found neither a valid session in memory nor a stored
\* one, and the manager holds credentials.
NothingStored ==
    /\ mgr = "SessionManager" /\ pc # "idle"
    /\ loaded.case = "missing" /\ login_credentials # NoCred

\* C32: a failed save_session is not fatal.  _auto_login returns True all the
\* same, with the session in memory marked logged in and its activity time
\* set; and an ensure_logged_in that finds no stored session goes on to log
\* in with the stored credentials.
C32_SaveFailureNotFatal ==
    /\ SaveFailed =>
          /\ is_logged_in /\ last_activity = now
          /\ op = "ensure_logged_in" => pc = "done" /\ ret = BoolRet(TRUE)
          /\ op = "request" => pc \in {"send", "resend", "done"}
    /\ NothingStored => accepted_by = "login"

\* A session that was logged in in memory had timed out and no file was
\* there; ensure_logged_in logged in again, the save failed again, and it
\* returned True.
C32_Witness ==
    /\ SaveFailed /\ NothingStored
    /\ entry.logged_in /\ accepted_by = "login"
    /\ op = "ensure_logged_in" /\ pc = "done" /\ ret = BoolRet(TRUE)

\* ------------------------------------------------------------------- C33
\* A step in which _load_session returns False.
LoadReturnsFalse ==
    /\ pc = "idle" /\ pc' = "done" /\ op' = "_load_session"
    /\ ret' = BoolRet(FALSE)

\* C33 as stated: whenever _load_session returns False (file missing, record
\* expired, or an exception part-way through restoring), the call leaves
\* _is_logged_in, _last_activity, the cookie jar and the login manager's
\* logged_in as they were before it.
C33_Original ==
    [][LoadReturnsFalse => UNCHANGED <<is_logged_in, last_activity, cookies, lm_logged_in>>]_vars

\* ------------------------------------------------------------------- C34
\* The session-establishing GET of the current login() call failed: the first
\* pass, the only one that makes it, ended in an exception or in a status
\* other than 200.
MainGetFailed ==
    /\ mgr \in {"LoginManager", "SessionManager"}
    /\ Len(outcomes) >= 1 /\ outcomes[1] \in {"main_raised", "main_failed"}

\* C34 as stated: within one login() call every CAPTCHA fetch and every
\* credential submission comes after a successful GET of the portal main page
\* made in that call; once that GET has failed, the call fetches no CAPTCHA
\* and submits nothing.
C34_Original ==
    MainGetFailed => nFetch = 0 /\ nSubmit = 0

\* ------------------------------------------------------------------- C35
\* _encode_credentials was called by the login() that returned and could not
\* parse the layout string as integers.
LayoutNotParsed == AdminLoginReturned /\ enc_out # NoCall /\ enc_out.raised

\* The form posted to /Logon.do carries the username and the password as
\* they were given to login().
PlaintextPosted ==
    /\ payload # NoCall /\ enc_in # NoCall
    /\ payload.userAccount = enc_in.username
    /\ payload.userPassword = enc_in.password

\* C35 as stated: when the layout string of the challenge cannot be parsed as
\* integers, AdminLoginManager.login submits nothing; and no call posts the
\* unencoded username and password as userAccount / userPassword.
C35_Original ==
    /\ LayoutNotParsed => payload = NoCall /\ nSubmit = 0
    /\ AdminLoginReturned => ~PlaintextPosted

\* ------------------------------------------------------------------- C36
\* request() has raised because its response was a redirect to the login page
\* and the _auto_login that followed failed.
ReloginFailed ==
    /\ mgr = "SessionManager" /\ pc = "done" /\ op = "request"
    /\ ret = RaiseRet(EXC_RELOGIN_FAILED)

\* A step of request() in which the response to the request turns out to be
\* a redirect to the login page.
ExpiryRevealed ==
    /\ mgr = "SessionManager" /\ pc = "send" /\ Len(sent') = Len(sent) + 1
    /\ ~sent'[Len(sent')].raised /\ IsLoginRedirect(sent'[Len(sent')])

\* C36 as stated: after request() failed on a mid-flight expiry whose
\* re-login failed, _is_logged_in (the value get_session_info reports) is
\* false; and the response that reveals the expiry does not refresh
\* _last_activity.
C36_Original ==
    /\ [](ReloginFailed => ~is_logged_in)
    /\ [][ExpiryRevealed => last_activity' = last_activity]_vars

\* ------------------------------------------------------------------- C37
\* The submissions of the current login() call that carried the text the
\* caller supplied (not one read from an image).
ExplicitSubmissions == {i \in 1..Len(submits) : submits[i] = 0}

\* C37 as stated: when the caller supplies the CAPTCHA text to
\* LoginManager.login, that text is submitted at most once in the call; after
\* the portal has rejected it as a CAPTCHA mismatch it is not submitted again.
C37_Original ==
    mgr = "LoginManager" /\ captcha => Cardinality(ExplicitSubmissions) <= 1

\* ------------------------------------------------------------------- C38
\* A request() call is under way or has just ended.
InRequest == mgr = "SessionManager" /\ op = "request" /\ pc # "idle"

\* A step of a request() call that invokes LoginManager.login.
LoginInvoked == op' = "request" /\ pc # "login" /\ pc' = "login"

\* login is invoked from two places only: the _auto_login of the call's
\* ensure_logged_in, and the _auto_login after the detected expiry.
C38_Sites ==
    LoginInvoked =>
        \/ pc = "idle" /\ auto_from' = "ensure_logged_in"
        \/ pc = "send" /\ auto_from' = "request" /\ nAuto' = 1

\* Each invocation asks for AUTO_LOGIN_RETRIES passes and makes no more
\* fetches and submissions than that; the expiry path is taken at most once.
C38_PerInvocation ==
    InRequest =>
        /\ nAuto <= 1
        /\ pc \in {"login", "auto_login"} => max_retries = AUTO_LOGIN_RETRIES
        /\ retry_count <= AUTO_LOGIN_RETRIES
        /\ nSubmit <= AUTO_LOGIN_RETRIES /\ nFetch <= AUTO_LOGIN_RETRIES
        /\ nSubmit <= Len(outcomes) /\ nFetch <= Len(outcomes)
        /\ Len(outcomes) <= AUTO_LOGIN_RETRIES

\* A call that has not returned can take its next step, whatever the
\* portal answers.
C38_NotStuck ==
    InRequest /\ pc # "done" =>
        ENABLED (\/ LoginExhausted
                 \/ \E main \in MainReplies, fetch \in FetchReplies,
                       ocrLen \in 0..MaxOcrLen, post \in PostReplies :
                       LoginStep(main, fetch, ocrLen, post)
                 \/ \E saveOk \in BOOLEAN : AutoLoginReturn(saveOk)
                 \/ \E r \in PageReplies : RequestSend(r)
                 \/ \E r \in PageReplies : RequestResend(r))

\* Every step of the call moves it forward: no place of the call is reached
\* twice, so each of the two invocation sites is passed at most once.
C38_Forward == InRequest /\ op' = "request" => CallMeasure' < CallMeasure

\* C38: one request() call invokes login at most twice, once from its
\* ensure_logged_in and once from the expiry path, each invocation making at
\* most AUTO_LOGIN_RETRIES = 3 submissions and 3 CAPTCHA fetches (6 and 6 for
\* the call), and the call always ends.
C38_RequestIsBounded ==
    /\ [](C38_PerInvocation /\ C38_NotStuck)
    /\ [][C38_Sites /\ C38_Forward]_vars

\* The call raised after the login of the expiry path used up its three
\* passes, each with a fetch and a submission.
C38_Witness ==
    /\ InRequest /\ pc = "done" /\ auto_from = "request" /\ nAuto = 1
    /\ nSubmit = AUTO_LOGIN_RETRIES /\ nFetch = AUTO_LOGIN_RETRIES
    /\ ret = RaiseRet(EXC_RELOGIN_FAILED)

\* ------------------------------------------------------------------- C39
\* save_session has returned True: the file holds the record of the jar.
SessionSaved ==
    /\ mgr = "SessionManager" /\ pc = "done" /\ op = "save_session"
    /\ ret = BoolRet(TRUE)

\* The jar of a fresh manager after its _load_session of the file.
FreshLoad == LoadSession(session_file, now, NoCookies)

\* C39 as stated: save_session followed, within the timeout, by _load_session
\* into a fresh manager restores the saved jar: the load succeeds and every
\* cookie of the saved jar is there with its name, value, domain and path,
\* two cookies of one name in different domains or paths included.
C39_Original ==
    SessionSaved => FreshLoad.ok /\ \A c \in cookies : c \in FreshLoad.cookies

\* ------------------------------------------------------------------- C40
\* The session file holds a record whose saved_time is older than
\* session_timeout.
FileExpired ==
    /\ session_file.exists /\ ~session_file.corrupt
    /\ now - session_file.saved_time > session_timeout

\* A step in which ensure_logged_in, the session in memory not being valid,
\* calls _load_session on such a record.
LoadsExpired ==
    /\ mgr = "SessionManager" /\ pc = "idle" /\ pc' # "idle"
    /\ op' \in {"ensure_logged_in", "request"}
    /\ accepted_by' # "memory" /\ FileExpired

\* _load_session returns False for the record and leaves the jar, the
\* logged-in flag and the activity time alone; the call does not accept the
\* stored session.
C40_NotAdopted ==
    LoadsExpired =>
        /\ loaded' = [case |-> "expired", ok |-> FALSE, base_match |-> session_file.base_match]
        /\ cookies' = cookies
        /\ is_logged_in' = is_logged_in /\ last_activity' = last_activity
        /\ lm_logged_in' = lm_logged_in
        /\ accepted_by' \in {"login", "none"}

\* When the call met an expired record and ensure_logged_in succeeded, it
\* succeeded through a login that succeeded.
C40_OnlyByLogin ==
    /\ mgr = "SessionManager" /\ loaded.case = "expired"
    /\ \/ pc = "done" /\ op = "ensure_logged_in" /\ ret = BoolRet(TRUE)
       \/ pc = "send" /\ op = "request"
    => accepted_by = "login" /\ auto_result.success /\ nSubmit >= 1

\* C40: a stored record older than session_timeout is never adopted:
\* _load_session returns False for it without touching the jar or the
\* logged-in flag, and ensure_logged_in succeeds only through a fresh login.
C40_ExpiredRecordNotAdopted ==
    /\ []C40_OnlyByLogin
    /\ [][C40_NotAdopted]_vars

\* ensure_logged_in met an expired record, logged in afresh and returned
\* True.
C40_Witness ==
    /\ mgr = "SessionManager" /\ loaded.case = "expired"
    /\ pc = "done" /\ op = "ensure_logged_in" /\ ret = BoolRet(TRUE)
    /\ accepted_by = "login" /\ auto_result.success
====
